---- MODULE Spec2Model ----
(***************************************************************************)
(* Model of the clood catfight triage pipeline:                            *)
(*   clood-cli/scripts/issue_catfight_processor.py  (the Driver)           *)
(*   clood-cli/scripts/triage_analyze.py            (the Result Parser)    *)
(*   clood-cli/scripts/triage_report.py             (the Reporter)         *)
(*                                                                         *)
(* Text is a sequence of tokens (short strings).  White space is explicit: *)
(* " " and "\n" are tokens, so "Size: S" is <<"Size", ":", " ", "S">> and  *)
(* "**Size:** M" is <<"**", "Size", ":", "**", " ", "M">>.  The regular    *)
(* expressions of the source are translated token by token.                *)
(***************************************************************************)
EXTENDS Integers, Sequences, FiniteSets, TLC

(***************************************************************************)
(* Bounds of the model.                                                    *)
(***************************************************************************)
MaxContestants == 3
MaxHedged == 1
MaxIssues == 2
MaxRuns == 2
MaxLostWrites == 1
MaxApplies == 2
MaxCalls == 4
LastDay == 10

(***************************************************************************)
(* Tokens.                                                                 *)
(***************************************************************************)
SP == " "
NL == "\n"

IsWs(t) == t \in {SP, NL}

\* str.lower() / re.IGNORECASE on one token
LowerTable ==
  [t \in {"Size", "SIZE", "Scope", "Open", "Questions", "Need", "AMBIGUOUS",
          "Unclear", "XS", "S", "M", "L", "XL"} |->
     CASE t = "Size" -> "size"
       [] t = "SIZE" -> "size"
       [] t = "Scope" -> "scope"
       [] t = "Open" -> "open"
       [] t = "Questions" -> "questions"
       [] t = "Need" -> "need"
       [] t = "AMBIGUOUS" -> "ambiguous"
       [] t = "Unclear" -> "unclear"
       [] t = "XS" -> "xs"
       [] t = "S" -> "s"
       [] t = "M" -> "m"
       [] t = "L" -> "l"
       [] t = "XL" -> "xl"]

Lower(t) == IF t \in DOMAIN LowerTable THEN LowerTable[t] ELSE t

\* <<a, b>>: the lower-case token a properly contains b, as a prefix, a suffix
\* or anywhere
ProperPrefix == {<<"questions", "question">>, <<"requirements", "requirement">>}
ProperSuffix == {<<"resize", "size">>, <<"unambiguous", "ambiguous">>}
ProperInfix == ProperPrefix \cup ProperSuffix

StartsWith(t, w) == Lower(t) = w \/ <<Lower(t), w>> \in ProperPrefix
EndsWith(t, w) == Lower(t) = w \/ <<Lower(t), w>> \in ProperSuffix
Contains(t, w) == Lower(t) = w \/ <<Lower(t), w>> \in ProperInfix

\* tokens made of word characters (for \b)
IsWordTok(t) ==
  Lower(t) \in {"size", "scope", "resize", "xs", "s", "m", "l", "xl", "small",
                "text", "looks", "fine", "open", "questions", "question",
                "unclear", "clear", "need", "needs", "more", "information",
                "clarification", "ambiguous", "unambiguous", "not",
                "specified", "missing", "requirement", "requirements", "are",
                "done", "failed", "error", "tokens"}

\* the alternation (XS|S|M|L|XL), case-insensitive, at the start of a token:
\* the size captured, upper-cased, or "" when the token starts with none
SizeOf(t) ==
  CASE Lower(t) = "xs" -> "XS"
    [] Lower(t) = "s" -> "S"
    [] Lower(t) = "m" -> "M"
    [] Lower(t) = "l" -> "L"
    [] Lower(t) = "xl" -> "XL"
    [] Lower(t) = "small" -> "S"
    [] Lower(t) = "size" -> "S"
    [] Lower(t) = "scope" -> "S"
    [] Lower(t) = "specified" -> "S"
    [] Lower(t) = "looks" -> "L"
    [] Lower(t) = "more" -> "M"
    [] Lower(t) = "missing" -> "M"
    [] OTHER -> ""

NoMatch == [ok |-> FALSE, end |-> 0, grp |-> ""]

\* the least element of a non-empty set of positions
Min(S) == CHOOSE x \in S : \A y \in S : x <= y

RECURSIVE SkipWs(_, _)
\* \s* from position p: the first position that holds no white space
SkipWs(s, p) == IF p <= Len(s) /\ IsWs(s[p]) THEN SkipWs(s, p + 1) ELSE p

RECURSIVE SkipColonWs(_, _)
\* [:\s]* from position p
SkipColonWs(s, p) ==
  IF p <= Len(s) /\ (IsWs(s[p]) \/ s[p] = ":") THEN SkipColonWs(s, p + 1) ELSE p

\* (XS|S|M|L|XL) at position q
SizeAt(s, q) ==
  IF q <= Len(s) /\ SizeOf(s[q]) # ""
  THEN [ok |-> TRUE, end |-> q + 1, grp |-> SizeOf(s[q])]
  ELSE NoMatch

\* r'\*\*Size:\*\*\s*(XS|S|M|L|XL)' at position p
PatBoldSize(s, p) ==
  IF /\ p + 3 <= Len(s)
     /\ s[p] = "**"
     /\ Lower(s[p + 1]) = "size"
     /\ s[p + 2] = ":"
     /\ s[p + 3] = "**"
  THEN SizeAt(s, SkipWs(s, p + 4))
  ELSE NoMatch

\* r'Size:\s*(XS|S|M|L|XL)' at position p (no word boundary: "resize:" matches)
PatSizeColon(s, p) ==
  IF p + 1 <= Len(s) /\ EndsWith(s[p], "size") /\ s[p + 1] = ":"
  THEN SizeAt(s, SkipWs(s, p + 2))
  ELSE NoMatch

\* r'\bSize\b[:\s]*(XS|S|M|L|XL)' at position p
PatWordSize(s, p) ==
  IF /\ p + 1 <= Len(s)
     /\ Lower(s[p]) = "size"
     /\ (p = 1 \/ ~IsWordTok(s[p - 1]))
     /\ ~IsWordTok(s[p + 1])
  THEN SizeAt(s, SkipColonWs(s, p + 1))
  ELSE NoMatch

RECURSIVE ScopeColonClose(_, _)
\* [^:]*:\*\* from position p: the position after the closing "**", or 0
ScopeColonClose(s, p) ==
  IF p + 1 > Len(s) THEN 0
  ELSE IF s[p] = ":" THEN (IF s[p + 1] = "**" THEN p + 2 ELSE 0)
  ELSE ScopeColonClose(s, p + 1)

\* r'\*\*Scope[^:]*:\*\*\s*(XS|S|M|L|XL)' at position p
PatBoldScope(s, p) ==
  IF p + 1 <= Len(s) /\ s[p] = "**" /\ StartsWith(s[p + 1], "scope")
  THEN LET q == ScopeColonClose(s, p + 2)
       IN IF q = 0 THEN NoMatch ELSE SizeAt(s, SkipWs(s, q))
  ELSE NoMatch

\* r'Scope:\s*(XS|S|M|L|XL)' at position p
PatScopeColon(s, p) ==
  IF p + 1 <= Len(s) /\ EndsWith(s[p], "scope") /\ s[p + 1] = ":"
  THEN SizeAt(s, SkipWs(s, p + 2))
  ELSE NoMatch

\* the patterns by name
MatchAt(pat, s, p) ==
  CASE pat = "BoldSize" -> PatBoldSize(s, p)
    [] pat = "SizeColon" -> PatSizeColon(s, p)
    [] pat = "WordSize" -> PatWordSize(s, p)
    [] pat = "BoldScope" -> PatBoldScope(s, p)
    [] pat = "ScopeColon" -> PatScopeColon(s, p)

\* the positions at which the pattern matches
MatchStarts(pat, s) == {q \in 1..Len(s) : MatchAt(pat, s, q).ok}

RECURSIVE FindAllFrom(_, _, _, _)
\* re.findall: the groups of the non-overlapping matches, left to right; the
\* scan resumes at the end of each match
FindAllFrom(pat, s, starts, p) ==
  LET next == {q \in starts : q >= p}
  IN IF next = {} THEN <<>>
     ELSE LET m == MatchAt(pat, s, Min(next))
          IN <<m.grp>> \o FindAllFrom(pat, s, starts, m.end)

FindAll(pat, s) == FindAllFrom(pat, s, MatchStarts(pat, s), 1)

\* re.search: the leftmost match
FirstMatch(pat, s, starts) ==
  IF starts = {} THEN NoMatch ELSE MatchAt(pat, s, Min(starts))

Search(pat, s) == FirstMatch(pat, s, MatchStarts(pat, s))

(***************************************************************************)
(* issue_catfight_processor.py: the Driver's analysis of a transcript.     *)
(***************************************************************************)

\* the three patterns of extract_size_estimates, in order
DriverPatterns == <<"BoldSize", "SizeColon", "WordSize">>

RECURSIVE extract_from(_, _)
\* the loop over the patterns, from pattern k on: sizes.extend(findall)
extract_from(results_text, k) ==
  IF k > Len(DriverPatterns) THEN <<>>
  ELSE FindAll(DriverPatterns[k], results_text)
         \o extract_from(results_text, k + 1)

extract_size_estimates(results_text) == extract_from(results_text, 1)

\* the seven indicators of extract_open_questions, each a phrase of words
\* separated by one space
Indicators ==
  << <<"open", "question">>,
     <<"unclear">>,
     <<"need", "more", "information">>,
     <<"needs", "clarification">>,
     <<"ambiguous">>,
     <<"not", "specified">>,
     <<"missing", "requirement">> >>

\* `ind in results_text`, without lower(), with the occurrence starting in
\* token p
PhraseAt_cased(ind, s, p) ==
  LET k == Len(ind)
      last == p + 2 * (k - 1)
  IN IF k = 1 THEN s[p] = ind[1] \/ <<s[p], ind[1]>> \in ProperInfix
     ELSE /\ last <= Len(s)
          /\ (s[p] = ind[1] \/ <<s[p], ind[1]>> \in ProperSuffix)
          /\ \A j \in 1..(k - 1) : s[p + 2 * j - 1] = SP
          /\ \A j \in 2..(k - 1) : s[p + 2 * (j - 1)] = ind[j]
          /\ (s[last] = ind[k] \/ <<s[last], ind[k]>> \in ProperPrefix)

\* `ind in text_lower` with the occurrence starting in token p
PhraseAt(ind, s, p) ==
  LET k == Len(ind)
      last == p + 2 * (k - 1)
  IN IF k = 1 THEN Contains(s[p], ind[1])
     ELSE /\ last <= Len(s)
          /\ EndsWith(s[p], ind[1])
          /\ \A j \in 1..(k - 1) : s[p + 2 * j - 1] = SP
          /\ \A j \in 2..(k - 1) : Lower(s[p + 2 * (j - 1)]) = ind[j]
          /\ StartsWith(s[last], ind[k])

HasPhrase(ind, s) == \E p \in 1..Len(s) : PhraseAt(ind, s, p)

\* the scan without its last indicator
extract_open_questions_six(results_text) ==
  \E i \in 1..(Len(Indicators) - 1) : HasPhrase(Indicators[i], results_text)

extract_open_questions(results_text) ==
  \E i \in 1..Len(Indicators) : HasPhrase(Indicators[i], results_text)

\* Counter(sizes)[x]
CountOf(sizes, x) == Cardinality({i \in 1..Len(sizes) : sizes[i] = x})

\* Counter(sizes).most_common(1)[0]: the highest count; among equal counts
\* the element inserted first
most_common(sizes) ==
  LET best == CHOOSE i \in 1..Len(sizes) :
                /\ \A j \in 1..Len(sizes) :
                     CountOf(sizes, sizes[j]) <= CountOf(sizes, sizes[i])
                /\ \A j \in 1..(i - 1) :
                     CountOf(sizes, sizes[j]) < CountOf(sizes, sizes[i])
  IN [size |-> sizes[best], count |-> CountOf(sizes, sizes[best])]

\* the majority rule with `>=` in the place of `>`
scope_labels_plurality(sizes) ==
  IF sizes = <<>> THEN <<>>
  ELSE LET mc == most_common(sizes)
       IN IF 2 * mc.count >= Len(sizes)
          THEN <<"scope:" \o mc.size>>
          ELSE <<"scope-disputed">>

\* the scope part of analyze_results: `most_common_count > total_sizes / 2`
scope_labels(sizes) ==
  IF sizes = <<>> THEN <<>>
  ELSE LET mc == most_common(sizes)
       IN IF 2 * mc.count > Len(sizes)
          THEN <<"scope:" \o mc.size>>
          ELSE <<"scope-disputed">>

\* the quality part of analyze_results
quality_labels(results_text) ==
  IF extract_open_questions(results_text)
  THEN <<"needs-clarification">>
  ELSE <<"actionable">>

\* analyze_results: the list of labels (the consensus summary is text of the
\* comment only and is not modelled)
analyze_results(results_text) ==
  scope_labels(extract_size_estimates(results_text))
    \o quality_labels(results_text)

(***************************************************************************)
(* triage_analyze.py: parse_results_file and extract_scope_from_response.  *)
(***************************************************************************)

Digits == {"0", "1", "2", "3", "4", "5", "6", "7", "8", "9"}

\* \[(\d+)/(\d+)\]
IsOrdinal(t) == t \in {"[" \o a \o "/" \o b \o "]" : a \in Digits, b \in Digits}
\* (\d+\.?\d*)s
IsSecs(t) == t \in {"1.5s", "12s", "0.8s"}
\* (\d+)
IsInt(t) == t \in {"120", "64"} \cup Digits
\* (\d+\.?\d*)
IsNum(t) == IsInt(t) \/ t \in {"80.0", "1.5", "0.8"}
\* -+
IsDashes(t) == t \in {"-", "---", "----"}

\* [^)]+ then \): the position of the first ")" from p on, or 0
FindClose(s, p) ==
  LET closes == {x \in p..Len(s) : s[x] = ")"}
  IN IF closes = {} THEN 0 ELSE Min(closes)

RECURSIVE JoinToks(_)
JoinToks(s) == IF s = <<>> THEN "" ELSE Head(s) \o JoinToks(Tail(s))

\* [^\n]* from position p: the position of the next newline, or of the end
LineEnd(s, p) == Min({x \in p..(Len(s) + 1) : x = Len(s) + 1 \/ s[x] = NL})

\* `(\S+) \(([^)]+)\)` at position p: the name, the model and the position
\* after the closing parenthesis
NameModelAt(s, p) ==
  IF /\ p + 3 <= Len(s)
     /\ ~IsWs(s[p])
     /\ s[p + 1] = SP
     /\ s[p + 2] = "("
     /\ FindClose(s, p + 3) > p + 3
  THEN LET c == FindClose(s, p + 3)
       IN [ok |-> TRUE, name |-> s[p], model |-> JoinToks(SubSeq(s, p + 3, c - 1)),
           end |-> c + 1]
  ELSE [ok |-> FALSE, name |-> "", model |-> "", end |-> 0]

\* `DONE (\d+\.?\d*)s \| (\d+) tokens \| (\d+\.?\d*) tok/s` at position q
DoneClauseAt(s, q) ==
  /\ q + 14 <= Len(s)
  /\ s[q] = "DONE" /\ s[q + 1] = SP
  /\ IsSecs(s[q + 2]) /\ s[q + 3] = SP
  /\ s[q + 4] = "|" /\ s[q + 5] = SP
  /\ IsInt(s[q + 6]) /\ s[q + 7] = SP
  /\ s[q + 8] = "tokens" /\ s[q + 9] = SP
  /\ s[q + 10] = "|" /\ s[q + 11] = SP
  /\ IsNum(s[q + 12]) /\ s[q + 13] = SP
  /\ s[q + 14] = "tok/s"

\* the status-line pattern of parse_results_file at position p
StatusAt(s, p) ==
  LET nm == NameModelAt(s, p + 4)
      q == SkipWs(s, nm.end)
      none == [ok |-> FALSE, end |-> 0, rec |-> <<>>]
  IN IF ~(/\ p + 4 <= Len(s)
          /\ s[p] = ">>>" /\ s[p + 1] = SP
          /\ IsOrdinal(s[p + 2]) /\ s[p + 3] = SP
          /\ nm.ok
          /\ q > nm.end)
     THEN none
     ELSE IF DoneClauseAt(s, q)
     THEN [ok |-> TRUE, end |-> q + 15,
           rec |-> [name |-> nm.name, model |-> nm.model, status |-> "done",
                    time |-> <<s[q + 2]>>, tokens |-> <<s[q + 6]>>,
                    toks |-> <<s[q + 12]>>]]
     ELSE IF q <= Len(s) /\ s[q] \in {"FAILED", "ERROR", "ERROR:"}
     THEN [ok |-> TRUE, end |-> LineEnd(s, q + 1),
           rec |-> [name |-> nm.name, model |-> nm.model, status |-> "failed",
                    time |-> <<>>, tokens |-> <<>>, toks |-> <<>>]]
     ELSE none

RECURSIVE ModelsFrom(_, _, _)
\* for match in re.finditer(pattern, content): result["models"].append(...)
ModelsFrom(s, starts, p) ==
  LET next == {q \in starts : q >= p}
  IN IF next = {} THEN <<>>
     ELSE LET m == StatusAt(s, Min(next))
          IN <<m.rec>> \o ModelsFrom(s, starts, m.end)

\* ([\d.]+)s: digits and dots in any arrangement
IsDotDigits(t) == IsSecs(t) \/ t \in {"1.2.3s", ".s"}

\* float() raises ValueError on digits and dots that make no number
FloatRaises(t) == t \in {"1.2.3s", ".s"}

\* r'WINNER: (\S+) wins with ([\d.]+)s' at position p
WinnerAt(s, p) ==
  /\ p + 8 <= Len(s)
  /\ s[p] = "WINNER:" /\ s[p + 1] = SP
  /\ ~IsWs(s[p + 2]) /\ s[p + 3] = SP
  /\ s[p + 4] = "wins" /\ s[p + 5] = SP
  /\ s[p + 6] = "with" /\ s[p + 7] = SP
  /\ IsDotDigits(s[p + 8])

\* the positions at which the winner pattern matches
WinnerStarts(s) == {p \in 1..Len(s) : WinnerAt(s, p)}

\* re.search of the winner line: <<>> for None
WinnerOf(s) ==
  IF WinnerStarts(s) # {}
  THEN LET p == Min(WinnerStarts(s))
       IN <<[name |-> s[p + 2], time |-> s[p + 8]]>>
  ELSE <<>>

\* float(winner_match.group(2)) raises
WinnerRaises(s) ==
  WinnerStarts(s) # {} /\ FloatRaises(s[Min(WinnerStarts(s)) + 8])

\* the lookahead (?=\n### |\n$|\Z) at position e
ResponseStop(s, e) ==
  \/ e = Len(s) + 1
  \/ /\ e + 2 <= Len(s)
     /\ s[e] = NL /\ s[e + 1] = "###" /\ s[e + 2] = SP
  \/ /\ e <= Len(s) /\ s[e] = NL
     /\ (e = Len(s) \/ (e + 1 = Len(s) /\ s[e + 1] = NL))

\* (.*?) with DOTALL: the first position from e on at which the lookahead holds
LazyEnd(s, e) == Min({x \in e..(Len(s) + 1) : ResponseStop(s, x)})

RECURSIVE Strip(_)
\* str.strip()
Strip(s) ==
  IF s = <<>> THEN <<>>
  ELSE IF IsWs(Head(s)) THEN Strip(Tail(s))
  ELSE IF IsWs(s[Len(s)]) THEN Strip(SubSeq(s, 1, Len(s) - 1))
  ELSE s

\* the positions at which the response pattern can match: its fixed head
ResponseHeadAt(s, p) ==
  /\ p + 2 <= Len(s)
  /\ s[p] = "###" /\ s[p + 1] = SP
  /\ NameModelAt(s, p + 2).ok
  /\ NameModelAt(s, p + 2).end + 2 <= Len(s)
  /\ s[NameModelAt(s, p + 2).end] = NL
  /\ IsDashes(s[NameModelAt(s, p + 2).end + 1])
  /\ s[NameModelAt(s, p + 2).end + 2] = NL

\* response_pattern at position p
ResponseAt(s, p) ==
  LET nm == NameModelAt(s, p + 2)
      b == nm.end + 3
      none == [ok |-> FALSE, end |-> 0, model |-> "", response |-> <<>>]
  IN IF ~ResponseHeadAt(s, p)
     THEN none
     ELSE LET e == LazyEnd(s, b)
          IN [ok |-> TRUE, end |-> e, model |-> nm.model,
              response |-> Strip(SubSeq(s, b, e - 1))]

\* an insertion-ordered dict, kept as a sequence of pairs: its keys in
\* iteration order, and its values by key
DictKeys(d) == [k \in 1..Len(d) |-> d[k].key]
DictMap(d) ==
  [x \in {d[k].key : k \in 1..Len(d)} |->
     d[CHOOSE k \in 1..Len(d) : d[k].key = x].val]

\* d[k] = v on an insertion-ordered dict
DictPut(d, k, v) ==
  IF \E i \in 1..Len(d) : d[i].key = k
  THEN [i \in 1..Len(d) |-> IF d[i].key = k THEN [key |-> k, val |-> v] ELSE d[i]]
  ELSE Append(d, [key |-> k, val |-> v])

RECURSIVE ResponsesFrom(_, _, _, _)
\* for match in re.finditer(response_pattern, content, re.DOTALL)
ResponsesFrom(s, starts, p, d) ==
  LET next == {q \in starts : q >= p}
  IN IF next = {} THEN d
     ELSE LET m == ResponseAt(s, Min(next))
          IN ResponsesFrom(s, starts, m.end, DictPut(d, m.model, m.response))

\* parse_results_file does not return: the ValueError leaves it
ParseError == [raised |-> TRUE, models |-> <<>>, winner |-> <<>>, responses |-> <<>>]

parse_results_file(content) ==
  IF WinnerRaises(content) THEN ParseError
  ELSE
  [raised |-> FALSE,
   models |-> ModelsFrom(content,
                         {p \in 1..Len(content) : StatusAt(content, p).ok}, 1),
   winner |-> WinnerOf(content),
   responses |-> ResponsesFrom(content,
                   {p \in 1..Len(content) : ResponseHeadAt(content, p)}, 1, <<>>)]

\* the four patterns of extract_scope_from_response, in order
AnalyzerPatterns == <<"BoldSize", "BoldScope", "SizeColon", "ScopeColon">>

RECURSIVE scope_from(_, _)
scope_from(response, k) ==
  IF k > Len(AnalyzerPatterns) THEN ""
  ELSE IF MatchStarts(AnalyzerPatterns[k], response) # {}
  THEN Search(AnalyzerPatterns[k], response).grp
  ELSE scope_from(response, k + 1)

\* extract_scope_from_response: the size, or "" for None
extract_scope_from_response(response) == scope_from(response, 1)

(***************************************************************************)
(* triage_report.py: TriageReporter._parse_all_results, consensus_report.  *)
(***************************************************************************)

\* if scope: scopes[model] = scope
put_scope(d, model, scope) == IF scope # "" THEN DictPut(d, model, scope) ELSE d

RECURSIVE scopes_of(_, _)
\* scopes = {}; for model, response in responses.items(): ...
scopes_of(responses, d) ==
  IF responses = <<>> THEN d
  ELSE scopes_of(Tail(responses),
                 put_scope(d, Head(responses).key,
                           extract_scope_from_response(Head(responses).val)))

\* scope_counts[s] for the votes of `scopes`
ScopeCount(scopes, x) == Cardinality({i \in 1..Len(scopes) : scopes[i].val = x})

\* max(scope_counts.items(), key=lambda x: x[1]): the first item, in insertion
\* order, that has the highest count
top_scope_of(scopes) ==
  LET best == CHOOSE i \in 1..Len(scopes) :
                /\ \A j \in 1..Len(scopes) :
                     ScopeCount(scopes, scopes[j].val) <= ScopeCount(scopes, scopes[i].val)
                /\ \A j \in 1..(i - 1) :
                     ScopeCount(scopes, scopes[j].val) < ScopeCount(scopes, scopes[i].val)
  IN <<scopes[best].val, ScopeCount(scopes, scopes[best].val)>>

\* the record _parse_all_results stores for one results file; the float
\* consensus_level is kept as the fraction num / den
issue_record(results, scopes, top_scope) ==
  [results |-> results,
   scopes |-> scopes,
   scope_consensus |-> top_scope[1],
   scope_votes |-> top_scope[2],
   total_votes |-> Len(scopes),
   consensus_level |-> IF scopes # <<>>
                       THEN [num |-> top_scope[2], den |-> Len(scopes)]
                       ELSE [num |-> 0, den |-> 1],
   models_run |-> Len(results.models),
   models_succeeded |->
     Cardinality({i \in 1..Len(results.models) :
                    results.models[i].status = "done"})]

\* the consensus of the votes: top_scope, or (None, 0) without votes
issue_scored(results, scopes) ==
  issue_record(results, scopes,
               IF scopes # <<>> THEN top_scope_of(scopes) ELSE <<"", 0>>)

\* the votes of the parsed responses
issue_parsed(results) == issue_scored(results, scopes_of(results.responses, <<>>))

issue_data(content) == issue_parsed(parse_results_file(content))

\* the try block of _parse_all_results for the one results file of issue
\* issue_num: the record is stored unless the parse raised
issue_stored(issue_num, results) ==
  IF results.raised THEN <<>>
  ELSE <<[key |-> issue_num, val |-> issue_parsed(results)]>>

parse_all_results(issue_num, content) ==
  issue_stored(issue_num, parse_results_file(content))

Buckets ==
  {"high_consensus", "medium_consensus", "low_consensus", "no_consensus",
   "needs_review"}

\* the thresholds with `>` in the place of `>=`
bucket_of_strict(data) ==
  LET level == data.consensus_level
      succeeded == data.models_succeeded
      total == data.models_run
  IN IF 4 * succeeded < 3 * total THEN "needs_review"
     ELSE IF 4 * level.num > 3 * level.den THEN "high_consensus"
     ELSE IF 2 * level.num > level.den THEN "medium_consensus"
     ELSE IF 4 * level.num > level.den THEN "low_consensus"
     ELSE "no_consensus"

\* the branch of consensus_report's loop body taken for one issue
bucket_of(data) ==
  LET level == data.consensus_level
      succeeded == data.models_succeeded
      total == data.models_run
  IN IF 4 * succeeded < 3 * total THEN "needs_review"
     ELSE IF 4 * level.num >= 3 * level.den THEN "high_consensus"
     ELSE IF 2 * level.num >= level.den THEN "medium_consensus"
     ELSE IF 4 * level.num >= level.den THEN "low_consensus"
     ELSE "no_consensus"

\* consensus_report over self.issues (a function from issue numbers to their
\* records): each bucket's list of issue numbers, in iteration order
RECURSIVE consensus_loop(_, _, _)
consensus_loop(issues_map, order, report) ==
  IF order = <<>> THEN report
  ELSE LET num == Head(order)
           b == bucket_of(issues_map[num])
       IN consensus_loop(issues_map, Tail(order),
                         [report EXCEPT ![b] = Append(@, num)])

consensus_report(issues_map, order) ==
  consensus_loop(issues_map, order, [b \in Buckets |-> <<>>])

\* label_sync_report: scope_labels[scope]
sync_scope_label(scope) ==
  CASE scope = "XS" -> "scope:xs"
    [] scope = "S" -> "scope:s"
    [] scope = "M" -> "scope:m"
    [] scope = "L" -> "scope:l"
    [] scope = "XL" -> "scope:xl"

\* the consensus label with `>` in the place of `>=`
sync_consensus_label_strict(level) ==
  IF 4 * level.num > 3 * level.den THEN "consensus:high"
  ELSE IF 2 * level.num > level.den THEN "consensus:medium"
  ELSE IF 4 * level.num > level.den THEN "consensus:low"
  ELSE "needs-scope-review"

\* label_sync_report: the consensus label of a level
sync_consensus_label(level) ==
  IF 4 * level.num >= 3 * level.den THEN "consensus:high"
  ELSE IF 2 * level.num >= level.den THEN "consensus:medium"
  ELSE IF 4 * level.num >= level.den THEN "consensus:low"
  ELSE "needs-scope-review"

\* round(level * 100); no level of the model lies half-way between two integers
sync_percent(level) == (200 * level.num + level.den) \div (2 * level.den)

\* label_sync_report: the entry of issues_to_update for one issue
sync_item(issue_num, data) ==
  [issue |-> issue_num,
   add_labels |->
     <<"triaged">>
     \o (IF data.scope_consensus \in {"XS", "S", "M", "L", "XL"}
         THEN <<sync_scope_label(data.scope_consensus)>> ELSE <<>>)
     \o <<sync_consensus_label(data.consensus_level)>>
     \o (IF 4 * data.models_succeeded < 3 * data.models_run
         THEN <<"needs-retriage">> ELSE <<>>),
   scope |-> data.scope_consensus,
   consensus |-> sync_percent(data.consensus_level)]

\* label_sync_report(output_json=True) over self.issues, an insertion-ordered
\* dict: report["issues_to_update"]
label_sync_report(issues_dict) ==
  [k \in 1..Len(issues_dict) |-> sync_item(issues_dict[k].key, issues_dict[k].val)]

\* the labels a `gh issue edit --add-label a,b,c` adds
Range(seq) == {seq[k] : k \in 1..Len(seq)}

(***************************************************************************)
(* issue_catfight_processor.py: host tag and skip/process decision.        *)
(***************************************************************************)

\* `word in hostname_lower` for the host names of the model
HostnameHas(hostname, word) ==
  <<hostname, word>> \in
    {<<"Mac-Mini", "mini">>, <<"MacBook-Pro", "macbook">>,
     <<"dev-laptop", "laptop">>, <<"mini-laptop", "mini">>,
     <<"mini-laptop", "laptop">>}

Hostnames == {"Mac-Mini", "MacBook-Pro", "dev-laptop", "mini-laptop", "ubuntu25", "unknown"}

\* main: "Determine hostname tag for labels"
hostname_tag_of(hostname) ==
  IF HostnameHas(hostname, "mini") THEN "triaged:mini"
  ELSE IF HostnameHas(hostname, "macbook") \/ HostnameHas(hostname, "laptop")
       THEN "triaged:laptop"
  ELSE "triaged"

get_issue_labels(issue) == issue.labels

\* the decision without the needs-retriage exception
should_process_no_retriage(issue, tag) ==
  LET labels == get_issue_labels(issue)
  IN IF tag \in labels
     THEN [should |-> FALSE, reason |-> "already triaged by this machine"]
     ELSE IF "triaged" \in labels
     THEN [should |-> FALSE, reason |-> "already triaged"]
     ELSE [should |-> TRUE, reason |-> "ready to process"]

\* the decision without the test of the generic tag
should_process_host_only(issue, tag) ==
  LET labels == get_issue_labels(issue)
  IN IF tag \in labels /\ "needs-retriage" \notin labels
     THEN [should |-> FALSE, reason |-> "already triaged by this machine"]
     ELSE [should |-> TRUE, reason |-> "ready to process"]

should_process(issue, tag) ==
  LET labels == get_issue_labels(issue)
  IN IF tag \in labels /\ "needs-retriage" \notin labels
     THEN [should |-> FALSE, reason |-> "already triaged by this machine"]
     ELSE IF "triaged" \in labels /\ "needs-retriage" \notin labels
     THEN [should |-> FALSE, reason |-> "already triaged"]
     ELSE [should |-> TRUE, reason |-> "ready to process"]

(***************************************************************************)
(* Transcripts: the output of the comparison tool for one prompt, in the   *)
(* format the parser reads.  A transcript is made of one entry per         *)
(* contestant and one extra line of text.                                  *)
(***************************************************************************)

\* what a contestant answers
Answer(kind) ==
  CASE kind = "boldM" -> <<"**", "Size", ":", "**", SP, "M">>
    [] kind = "boldXL" -> <<"**", "size", ":", "**", NL, "xl">>
    [] kind = "plainS" -> <<"Size", ":", SP, "S">>
    [] kind = "bareL" -> <<"Size", SP, "L">>
    [] kind = "scopeXS" -> <<"Scope", ":", SP, "XS">>
    [] kind = "plain" -> <<"looks", SP, "fine">>
    [] kind = "boldScopeL" -> <<"**", "Scope", SP, "Estimate", ":", "**", SP, "L">>
    [] kind = "template" ->
         <<"##", SP, "Analysis", NL, NL, "###", SP, "Scope", SP, "Estimate", NL,
           "**", "Size", ":", "**", SP, "M">>

AnswerKinds == {"boldM", "boldXL", "plainS", "bareL", "scopeXS", "plain"}
EntryKinds == AnswerKinds \cup {"failed"}

\* the extra text: the seven hedge phrases in several spellings, near misses,
\* a winner line with a time that is no number, and the last section of the
\* prompt template (lines 199-201) with an item under its header
ExtraTexts ==
  << <<>>,
     <<"###", SP, "Open", SP, "Questions">>,
     <<"requirements", SP, "are", SP, "Unclear">>,
     <<"Need", SP, "more", SP, "information">>,
     <<"needs", SP, "clarification">>,
     <<"AMBIGUOUS">>,
     <<"not", SP, "specified">>,
     <<"missing", SP, "requirement">>,
     <<"unambiguous">>,
     <<"open", NL, "question">>,
     <<"need", SP, "information">>,
     <<"clear">>,
     <<"WINNER:", SP, "cat1", SP, "wins", SP, "with", SP, "1.2.3s">>,
     <<"###", SP, "Open", SP, "Questions", NL, "-", SP, "text">> >>

ContestantName(i) == "cat" \o ToString(i)
ContestantModel(i) == "phi" \o ToString(i)

StatusLine(i, n, kind) ==
  <<">>>", SP, "[" \o ToString(i) \o "/" \o ToString(n) \o "]", SP,
    ContestantName(i), SP, "(", ContestantModel(i), ")", SP>>
  \o (IF kind = "failed" THEN <<"FAILED">>
      ELSE <<"DONE", SP, "1.5s", SP, "|", SP, "120", SP, "tokens", SP, "|", SP,
             "80.0", SP, "tok/s">>)
  \o <<NL>>

ResponseSection(i, body) ==
  <<NL, "###", SP, ContestantName(i), SP, "(", ContestantModel(i), ")", NL,
    "----", NL>> \o body \o <<NL>>

RECURSIVE StatusLines(_, _)
StatusLines(cs, i) ==
  IF i > Len(cs) THEN <<>>
  ELSE StatusLine(i, Len(cs), cs[i]) \o StatusLines(cs, i + 1)

\* the first contestant that answered, or 0
FirstDone(cs) ==
  IF \E i \in 1..Len(cs) : cs[i] # "failed"
  THEN CHOOSE i \in 1..Len(cs) :
         cs[i] # "failed" /\ \A j \in 1..(i - 1) : cs[j] = "failed"
  ELSE 0

RECURSIVE Sections(_, _, _)
\* the response sections; `note` is appended to the first answer
Sections(cs, i, note) ==
  IF i > Len(cs) THEN <<>>
  ELSE (IF cs[i] = "failed" THEN <<>>
        ELSE ResponseSection(i, Answer(cs[i])
               \o (IF i = FirstDone(cs) /\ note # <<>> THEN <<NL>> \o note
                   ELSE <<>>)))
       \o Sections(cs, i + 1, note)

WinnerLine(cs) ==
  IF FirstDone(cs) = 0 THEN <<>>
  ELSE <<"WINNER:", SP, ContestantName(FirstDone(cs)), SP, "wins", SP, "with",
         SP, "1.5s", NL>>

\* the transcript of contestants cs with extra text x, which stands on a
\* line of its own at the top ("lead") or ends the first answer ("body")
Transcript(cs, x, where) ==
  (IF where = "lead" /\ ExtraTexts[x] # <<>> THEN ExtraTexts[x] \o <<NL>> ELSE <<>>)
  \o StatusLines(cs, 1)
  \o WinnerLine(cs)
  \o Sections(cs, 1, IF where = "body" THEN ExtraTexts[x] ELSE <<>>)

SeqsUpTo(S, n) == UNION {[1..k -> S] : k \in 0..n}

\* longer panels: the tallies of the majority rule and the bucket boundaries
ExamplePanels ==
  {<<"boldM", "boldM", "boldM", "plainS">>,
   <<"boldM", "boldM", "plainS", "bareL">>,
   <<"boldM", "boldM", "boldM", "boldXL">>,
   <<"boldM", "boldM", "plainS", "scopeXS">>,
   <<"boldM", "boldXL", "plainS", "scopeXS">>,
   <<"boldM", "boldM", "boldM", "failed">>,
   <<"boldM", "boldM", "failed", "failed">>,
   <<"boldM", "boldXL", "plainS", "scopeXS", "boldScopeL">>,
   <<"template">>,
   <<"template", "plainS">>}

Panels == SeqsUpTo(EntryKinds, MaxContestants) \cup ExamplePanels

\* what a transcript is made of: the panel, the extra text and its place
TranscriptInputs ==
  {<<cs, 1, "lead">> : cs \in Panels}
  \cup
  {t \in SeqsUpTo(EntryKinds, MaxHedged) \X (2..Len(ExtraTexts))
            \X {"lead", "body"} :
     t[3] = "body" => FirstDone(t[1]) # 0}

Transcripts == {Transcript(in[1], in[2], in[3]) : in \in TranscriptInputs}

\* the labels an issue of the backlog may carry
IssueLabels ==
  {"triaged", "triaged:mini", "triaged:laptop", "needs-retriage",
   "triage-failed", "scope:M"}

(***************************************************************************)
(* The functions on their own: each is applied to an input drawn from the  *)
(* sets above.                                                             *)
(***************************************************************************)
VARIABLES
  fn_pc,           \* which function has been applied
  fn_issue,        \* the issue handed to should_process
  fn_hostname,     \* HOSTNAME
  fn_content,      \* the content of issue-42-results.txt
  fn_panel,        \* what each contestant of fn_content did
  fn_extra,        \* which extra text fn_content carries
  fn_where,        \* and where: at the top, or in the first answer
  fn_decision,     \* what should_process returned
  fn_labels,       \* what analyze_results returned
  reporter_issues, \* TriageReporter.issues
  fn_report,       \* what consensus_report returned
  fn_sync,         \* issues_to_update of what label_sync_report returned
  fn_tracker,      \* the labels of issue 42 on the tracker
  fn_applied       \* how often _apply_labels has run

\* what the functions are applied to
fn_input == <<fn_issue, fn_hostname, fn_content, fn_panel, fn_extra, fn_where>>

fn_vars ==
  <<fn_pc, fn_input, fn_decision, fn_labels, reporter_issues, fn_report,
    fn_sync, fn_tracker, fn_applied>>

NoDecision == [should |-> FALSE, reason |-> ""]
NoReport == [b \in Buckets |-> <<>>]
NoIssue == [number |-> 42, labels |-> {}]

(***************************************************************************)
(* issue_catfight_processor.py: main, one run after the other.  The        *)
(* tracker holds the labels of the issues; a run loads them as its backlog *)
(* and handles the issues in order.  Every external call (health check,    *)
(* file write, comparison tool, gh) is a step with its outcomes.           *)
(***************************************************************************)
VARIABLES
  tracker,        \* the labels of every issue on the issue tracker
  lost,           \* the gh calls that failed or timed out so far, counted
                  \* from MaxLostWrites where none is to fail
  runs_left,      \* the runs still to come
  hostname,       \* HOSTNAME of the run
  issues,         \* the backlog loaded from ISSUES_FILE
  i,              \* the place in the backlog of the issue at hand, from 1
  pc,             \* where main stands
  processed,
  skipped,
  failed,
  result_labels,  \* the labels of the issue at hand, host tag last
  todo,           \* the labels add_labels has still to write
  checks,         \* the health checks made for the issue at hand, until
                  \* its prompt is built
  calls,          \* the calls of the comparison tool and of gh made for
                  \* the issue at hand, in order
  counted,        \* for each issue handled in this run, how it was counted
  effective,      \* every tracker write for the issue at hand took effect
  triaged_by,     \* per issue: the host tag of the run that processed it
                  \* with all its writes effective and no retriage since
  report          \* the final report printed, <<>> before

drv_vars ==
  <<tracker, lost, runs_left, hostname, issues, i, pc, processed, skipped, failed,
    result_labels, todo, checks, calls, counted, effective, triaged_by, report>>

(***************************************************************************)
(* triage_logger.py: the files under ~/.clood/triage, one TriageLogger      *)
(* object at a time, the retention sweep and the benchmarks.               *)
(***************************************************************************)
VARIABLES
  today,      \* the date: the day of January 2025
  jsonl,      \* JSONL_DIR: the records of triage-<run id>.jsonl, per run id
  gz,         \* JSONL_DIR: the records held by triage-<run id>.jsonl.gz
  summaries,  \* JSONL_DIR: the content of triage-<run id>-summary.json
  raw,        \* RAW_DIR: the names of its entries
  logger,     \* the TriageLogger object of the running process, <<>> without
  at_open,    \* the records of the object's log when the object was made
  sent,       \* the entries the object's logging calls have built, in order
  fresh,      \* finalize was the object's latest call
  log_calls,  \* how many calls TriageLogger and its methods have had
  sw_pc,      \* where cleanup_old_data stands
  sw_todo,    \* the entries its loop has still to visit
  sw_item,    \* the log it is compressing
  gz_open,    \* the run ids whose compressed copy is open for writing, or was
              \* when the process that wrote it ended
  cleaned,    \* its counts
  before,     \* the files and the date when the sweep at hand started
  again,      \* the sweep at hand started right after another one returned
  bench_pc,   \* where get_model_benchmarks stands
  bench_sel,  \* the run ids get_model_benchmarks is asked about
  bench       \* what it returned

log_vars ==
  <<today, jsonl, gz, summaries, raw, logger, at_open, sent, fresh, log_calls,
    sw_pc, sw_todo, sw_item, gz_open, cleaned, before, again, bench_pc,
    bench_sel, bench>>

vars == <<fn_vars, drv_vars, log_vars>>

\* the numbers of the issues on the tracker
IssueNumbers == DOMAIN tracker

\* the labels an issue carries when the first run starts
InitialLabelSets ==
  {{}, {"triaged"}, {"triaged:mini"}, {"triaged:mini", "needs-retriage"},
   {"triaged", "needs-retriage"}, {"triage-failed"}}

\* the labels of the issues of a longer backlog when its run starts
BacklogLabelSets == {{}, {"triaged"}}

DriverHosts == {"Mac-Mini", "ubuntu25"}

\* what the comparison tool may leave in the results file
DriverTranscripts ==
  {Transcript(<<>>, 1, "lead"),
   Transcript(<<"boldM", "boldM", "plainS">>, 1, "lead"),
   Transcript(<<"plainS", "failed">>, 2, "body")}

hostname_tag == hostname_tag_of(hostname)

Call(op, arg) == [op |-> op, arg |-> arg]

\* a removal that clears triage-failed along with the label
WithoutLabel_failed(t, num, label) ==
  [t EXCEPT ![num] = @ \ {label, "triage-failed"}]

\* gh issue edit --add-label / --remove-label when it takes effect
WithLabel(t, num, label) == [t EXCEPT ![num] = @ \cup {label}]
WithoutLabel(t, num, label) == [t EXCEPT ![num] = @ \ {label}]

\* whether a gh call takes effect
GhOutcomes == IF lost < MaxLostWrites THEN {TRUE, FALSE} ELSE {TRUE}
Lose(ok) == lost' = IF ok THEN lost ELSE lost + 1

\* either one run over a backlog of MaxIssues issues, every gh call of which
\* takes effect, or up to MaxRuns runs over a backlog of one issue, of which up
\* to MaxLostWrites gh calls fail
DrvInit ==
  /\ \/ /\ tracker \in [1..MaxIssues -> BacklogLabelSets]
        /\ runs_left = 1
        /\ lost = MaxLostWrites
     \/ /\ tracker \in [{1} -> InitialLabelSets]
        /\ runs_left = MaxRuns
        /\ lost = 0
  /\ hostname = "unknown"
  /\ issues = <<>>
  /\ i = 1
  /\ pc = "idle"
  /\ processed = 0 /\ skipped = 0 /\ failed = 0
  /\ result_labels = <<>>
  /\ todo = <<>>
  /\ checks = 0
  /\ calls = <<>>
  /\ counted = <<>>
  /\ effective = TRUE
  /\ triaged_by = [n \in IssueNumbers |-> ""]
  /\ report = <<>>

\* a run starts: configuration, host tag, backlog, counters (lines 142-209)
StartRun(h) ==
  /\ pc \in {"idle", "report", "crashed"}
  /\ runs_left > 0
  /\ runs_left' = runs_left - 1
  /\ hostname' = h
  /\ issues' = [n \in IssueNumbers |-> [number |-> n, labels |-> tracker[n]]]
  /\ i' = 1
  /\ pc' = "loop"
  /\ processed' = 0 /\ skipped' = 0 /\ failed' = 0
  /\ result_labels' = <<>>
  /\ todo' = <<>>
  /\ checks' = 0
  /\ calls' = <<>>
  /\ counted' = <<>>
  /\ effective' = TRUE
  /\ report' = <<>>
  /\ UNCHANGED <<tracker, lost, triaged_by>>
  /\ UNCHANGED <<fn_vars, log_vars>>

\* somebody asks for a retriage of issue n between two runs
AddRetriage(n) ==
  /\ pc \in {"idle", "report", "crashed"}
  /\ runs_left > 0
  /\ "needs-retriage" \notin tracker[n]
  /\ tracker' = WithLabel(tracker, n, "needs-retriage")
  /\ triaged_by' = [triaged_by EXCEPT ![n] = ""]
  /\ UNCHANGED <<lost, runs_left, hostname, issues, i, pc, processed, skipped,
                 failed, result_labels, todo, checks, calls, counted, effective,
                 report>>
  /\ UNCHANGED <<fn_vars, log_vars>>

\* `continue`, or the end of the loop body: on to the next issue
NextIssue(class) ==
  /\ counted' = Append(counted, [issue |-> i, class |-> class])
  /\ i' = i + 1
  /\ pc' = "loop"

\* the failure path without `failed += 1`
FailIssue_uncounted(sofar) ==
  /\ \E ok \in GhOutcomes :
       /\ tracker' = IF ok THEN WithLabel(tracker, issues[i].number, "triage-failed")
                     ELSE tracker
       /\ Lose(ok)
  /\ calls' = Append(sofar, Call("add", "triage-failed"))
  /\ checks' = 0
  /\ NextIssue("failed")
  /\ UNCHANGED <<runs_left, hostname, issues, processed, skipped, failed,
                 result_labels, todo, effective, triaged_by, report>>

\* add_labels(num, ['triage-failed'], repo); failed += 1; then the next issue
FailIssue(sofar) ==
  /\ \E ok \in GhOutcomes :
       /\ tracker' = IF ok THEN WithLabel(tracker, issues[i].number, "triage-failed")
                     ELSE tracker
       /\ Lose(ok)
  /\ calls' = Append(sofar, Call("add", "triage-failed"))
  /\ failed' = failed + 1
  /\ checks' = 0
  /\ NextIssue("failed")
  /\ UNCHANGED <<runs_left, hostname, issues, processed, skipped,
                 result_labels, todo, effective, triaged_by, report>>

\* lines 219-224: the issue is skipped
SkipIssue ==
  /\ pc = "loop" /\ i <= Len(issues)
  /\ ~should_process(issues[i], hostname_tag).should
  /\ skipped' = skipped + 1
  /\ calls' = <<>>
  /\ NextIssue("skipped")
  /\ UNCHANGED <<tracker, lost, runs_left, hostname, issues, processed, failed,
                 result_labels, todo, checks, effective, triaged_by, report>>
  /\ UNCHANGED <<fn_vars, log_vars>>

\* line 227: the first check_ollama()
HealthCheck ==
  /\ pc = "loop" /\ i <= Len(issues)
  /\ should_process(issues[i], hostname_tag).should
  /\ checks' = 1
  /\ calls' = <<>>
  /\ \E healthy \in BOOLEAN : pc' = IF healthy THEN "prompt" ELSE "sleep30"
  /\ result_labels' = <<>> /\ todo' = <<>> /\ effective' = TRUE
  /\ UNCHANGED <<tracker, lost, runs_left, hostname, issues, i, processed, skipped,
                 failed, counted, triaged_by, report>>
  /\ UNCHANGED <<fn_vars, log_vars>>

\* the re-check in a loop: an unhealthy answer is followed by another wait
HealthRecheck_again ==
  /\ pc = "sleep30"
  /\ \E healthy \in BOOLEAN :
       IF healthy \/ checks >= 3
       THEN /\ pc' = "prompt"
            /\ checks' = checks + 1
       ELSE /\ pc' = "sleep30"
            /\ checks' = checks + 1
  /\ UNCHANGED <<tracker, lost, runs_left, hostname, issues, i, processed,
                 skipped, failed, result_labels, todo, calls,
                 counted, effective, triaged_by, report>>
  /\ UNCHANGED <<fn_vars, log_vars>>

\* lines 229-234: time.sleep(30), then the second check_ollama()
HealthRecheck ==
  /\ pc = "sleep30"
  /\ \E healthy \in BOOLEAN :
       IF healthy
       THEN /\ pc' = "prompt"
            /\ checks' = checks + 1
            /\ UNCHANGED <<tracker, lost, runs_left, hostname, issues, i, processed,
                           skipped, failed, result_labels, todo, calls,
                           counted, effective, triaged_by, report>>
       ELSE FailIssue(calls)
  /\ UNCHANGED <<fn_vars, log_vars>>

\* lines 236-246: the prompt is built and saved; a failed write is not caught
SavePrompt ==
  /\ pc = "prompt"
  /\ \E written \in BOOLEAN : pc' = IF written THEN "catfight" ELSE "crashed"
  /\ checks' = 0
  /\ UNCHANGED <<tracker, lost, runs_left, hostname, issues, i, processed, skipped,
                 failed, result_labels, todo, calls, counted, effective,
                 triaged_by, report>>
  /\ UNCHANGED <<fn_vars, log_vars>>

\* subprocess.run returns a CompletedProcess with the exit status of the
\* shell, which main does not look at
Returned == {"exit 0", "exit 1"}

\* the invocation with subprocess.run(..., check=True): an exit status other
\* than 0 raises and is handled as a failure
RunCatfight_checked ==
  /\ pc = "catfight"
  /\ \E outcome \in Returned \cup {"timeout", "raised"} :
       IF outcome = "exit 0"
       THEN /\ pc' = "read"
            /\ calls' = Append(calls, Call("catfight", outcome))
            /\ UNCHANGED <<tracker, lost, runs_left, hostname, issues, i, processed,
                           skipped, failed, result_labels, todo, checks,
                           counted, effective, triaged_by, report>>
       ELSE FailIssue(Append(calls, Call("catfight", outcome)))
  /\ UNCHANGED <<fn_vars, log_vars>>

\* the invocation without `except Exception`: what is raised leaves main
RunCatfight_uncaught ==
  /\ pc = "catfight"
  /\ \E outcome \in Returned \cup {"timeout", "raised"} :
       IF outcome \in Returned
       THEN /\ pc' = "read"
            /\ calls' = Append(calls, Call("catfight", outcome))
            /\ UNCHANGED <<tracker, lost, runs_left, hostname, issues, i, processed,
                           skipped, failed, result_labels, todo, checks,
                           counted, effective, triaged_by, report>>
       ELSE IF outcome = "timeout"
       THEN FailIssue(Append(calls, Call("catfight", outcome)))
       ELSE /\ pc' = "crashed"
            /\ calls' = Append(calls, Call("catfight", outcome))
            /\ UNCHANGED <<tracker, lost, runs_left, hostname, issues, i, processed,
                           skipped, failed, result_labels, todo, checks,
                           counted, effective, triaged_by, report>>
  /\ UNCHANGED <<fn_vars, log_vars>>

\* the invocation tried once more after a timeout
RunCatfight_retry ==
  /\ pc = "catfight"
  /\ \E outcome \in Returned \cup {"timeout", "raised"} :
       IF outcome \in Returned
       THEN /\ pc' = "read"
            /\ calls' = Append(calls, Call("catfight", outcome))
            /\ UNCHANGED <<tracker, lost, runs_left, hostname, issues, i, processed,
                           skipped, failed, result_labels, todo, checks,
                           counted, effective, triaged_by, report>>
       ELSE IF outcome = "timeout" /\ calls = <<>>
       THEN /\ pc' = "catfight"
            /\ calls' = Append(calls, Call("catfight", outcome))
            /\ UNCHANGED <<tracker, lost, runs_left, hostname, issues, i, processed,
                           skipped, failed, result_labels, todo, checks,
                           counted, effective, triaged_by, report>>
       ELSE FailIssue(Append(calls, Call("catfight", outcome)))
  /\ UNCHANGED <<fn_vars, log_vars>>

\* lines 252-254 and 326-333: subprocess.run(cmd, shell=True, timeout=1800)
RunCatfight ==
  /\ pc = "catfight"
  /\ \E outcome \in Returned \cup {"timeout", "raised"} :
       IF outcome \in Returned
       THEN /\ pc' = "read"
            /\ calls' = Append(calls, Call("catfight", outcome))
            /\ UNCHANGED <<tracker, lost, runs_left, hostname, issues, i, processed,
                           skipped, failed, result_labels, todo, checks,
                           counted, effective, triaged_by, report>>
       ELSE FailIssue(Append(calls, Call("catfight", outcome)))
  /\ UNCHANGED <<fn_vars, log_vars>>

\* the analysis with the host tag put before the derived labels
ReadResults_tag_first ==
  /\ pc = "read"
  /\ \/ /\ \E results \in DriverTranscripts :
             result_labels' = <<hostname_tag>> \o analyze_results(results)
        /\ pc' = "comment"
        /\ UNCHANGED <<tracker, lost, runs_left, hostname, issues, i, processed,
                       skipped, failed, todo, checks, calls, counted, effective,
                       triaged_by, report>>
     \/ FailIssue(calls)
  /\ UNCHANGED <<fn_vars, log_vars>>

\* lines 256-264: the transcript is read and analysed
ReadResults ==
  /\ pc = "read"
  /\ \/ /\ \E results \in DriverTranscripts :
             result_labels' = Append(analyze_results(results), hostname_tag)
        /\ pc' = "comment"
        /\ UNCHANGED <<tracker, lost, runs_left, hostname, issues, i, processed,
                       skipped, failed, todo, checks, calls, counted, effective,
                       triaged_by, report>>
     \/ FailIssue(calls)
  /\ UNCHANGED <<fn_vars, log_vars>>

\* lines 303-306: the comment file is written
WriteComment ==
  /\ pc = "comment"
  /\ \/ /\ pc' = "post"
        /\ UNCHANGED <<tracker, lost, runs_left, hostname, issues, i, processed,
                       skipped, failed, result_labels, todo, checks, calls,
                       counted, effective, triaged_by, report>>
     \/ FailIssue(calls)
  /\ UNCHANGED <<fn_vars, log_vars>>

\* lines 308-310: subprocess.run(post_cmd, shell=True), no timeout; its exit
\* status is not looked at
PostComment ==
  /\ pc = "post"
  /\ \/ /\ pc' = "labels"
        /\ calls' = Append(calls, Call("comment", ""))
        /\ todo' = result_labels
        /\ UNCHANGED <<tracker, lost, runs_left, hostname, issues, i, processed,
                       skipped, failed, result_labels, checks, counted,
                       effective, triaged_by, report>>
     \/ FailIssue(Append(calls, Call("comment", "")))
  /\ UNCHANGED <<fn_vars, log_vars>>

\* lines 308-309: subprocess.run(post_cmd, shell=True) is given no timeout, so
\* main waits for as long as gh does not return
PostCommentHangs ==
  /\ pc = "post"
  /\ pc' = "blocked"
  /\ calls' = Append(calls, Call("comment", ""))
  /\ UNCHANGED <<tracker, lost, runs_left, hostname, issues, i, processed,
                 skipped, failed, result_labels, todo, checks, counted,
                 effective, triaged_by, report>>
  /\ UNCHANGED <<fn_vars, log_vars>>

\* lines 124-131: one turn of the loop of add_labels(num, result_labels, repo)
AddLabel ==
  /\ pc = "labels" /\ todo # <<>>
  /\ \E ok \in GhOutcomes :
       /\ tracker' = IF ok THEN WithLabel(tracker, issues[i].number, Head(todo))
                     ELSE tracker
       /\ Lose(ok)
       /\ effective' = (effective /\ ok)
  /\ calls' = Append(calls, Call("add", Head(todo)))
  /\ todo' = Tail(todo)
  /\ UNCHANGED <<runs_left, hostname, issues, i, pc, processed, skipped,
                 failed, result_labels, checks, counted, triaged_by, report>>
  /\ UNCHANGED <<fn_vars, log_vars>>

\* the end of the success path with the removal made for every issue
FinishIssue_unconditional ==
  /\ pc = "labels" /\ todo = <<>>
  /\ \E ok \in GhOutcomes :
       /\ tracker' = IF ok THEN WithoutLabel(tracker, issues[i].number, "needs-retriage")
                     ELSE tracker
       /\ Lose(ok)
       /\ calls' = Append(calls, Call("remove", "needs-retriage"))
       /\ triaged_by' =
            [triaged_by EXCEPT ![issues[i].number] =
               IF effective /\ ok THEN hostname_tag ELSE @]
  /\ processed' = processed + 1
  /\ NextIssue("processed")
  /\ UNCHANGED <<runs_left, hostname, issues, skipped, failed, result_labels,
                 todo, checks, effective, report>>
  /\ UNCHANGED <<fn_vars, log_vars>>

\* lines 315-324: needs-retriage is removed if the backlog had it; the issue
\* is counted as processed
FinishIssue ==
  /\ pc = "labels" /\ todo = <<>>
  /\ LET labels == get_issue_labels(issues[i])
         num == issues[i].number
     IN IF "needs-retriage" \in labels
        THEN \E ok \in GhOutcomes :
               /\ tracker' = IF ok THEN WithoutLabel(tracker, num, "needs-retriage")
                             ELSE tracker
               /\ Lose(ok)
               /\ calls' = Append(calls, Call("remove", "needs-retriage"))
               /\ triaged_by' =
                    [triaged_by EXCEPT ![num] =
                       IF effective /\ ok THEN hostname_tag ELSE @]
        ELSE /\ UNCHANGED <<tracker, lost, calls>>
             /\ triaged_by' =
                  [triaged_by EXCEPT ![num] = IF effective THEN hostname_tag ELSE @]
  /\ processed' = processed + 1
  /\ NextIssue("processed")
  /\ UNCHANGED <<runs_left, hostname, issues, skipped, failed, result_labels,
                 todo, checks, effective, report>>
  /\ UNCHANGED <<fn_vars, log_vars>>

\* lines 335-342: the final report
PrintReport ==
  /\ pc = "loop" /\ i > Len(issues)
  /\ report' = <<[processed |-> processed, skipped |-> skipped,
                  failed |-> failed, total |-> Len(issues)]>>
  /\ pc' = "report"
  /\ UNCHANGED <<tracker, lost, runs_left, hostname, issues, i, processed, skipped,
                 failed, result_labels, todo, checks, calls, counted, effective,
                 triaged_by>>
  /\ UNCHANGED <<fn_vars, log_vars>>

DrvNext ==
  \/ \E h \in DriverHosts : StartRun(h)
  \/ \E n \in IssueNumbers : AddRetriage(n)
  \/ SkipIssue
  \/ HealthCheck
  \/ HealthRecheck
  \/ SavePrompt
  \/ RunCatfight
  \/ ReadResults
  \/ WriteComment
  \/ PostComment
  \/ AddLabel
  \/ FinishIssue
  \/ PrintReport

\* the Driver is not running
DrvParked ==
  /\ tracker = <<>>
  /\ lost = 0
  /\ runs_left = 0
  /\ hostname = "unknown"
  /\ issues = <<>>
  /\ i = 1
  /\ pc = "off"
  /\ processed = 0 /\ skipped = 0 /\ failed = 0
  /\ result_labels = <<>>
  /\ todo = <<>>
  /\ checks = 0
  /\ calls = <<>>
  /\ counted = <<>>
  /\ effective = TRUE
  /\ triaged_by = <<>>
  /\ report = <<>>

\* no function is being applied
FnParked ==
  /\ fn_pc = "off"
  /\ fn_issue = NoIssue
  /\ fn_hostname = "unknown"
  /\ fn_content = <<>>
  /\ fn_panel = <<>>
  /\ fn_extra = 1
  /\ fn_where = "lead"
  /\ fn_decision = NoDecision
  /\ fn_labels = <<>>
  /\ reporter_issues = <<>>
  /\ fn_report = NoReport
  /\ fn_sync = <<>>
  /\ fn_tracker = {}
  /\ fn_applied = 0

(***************************************************************************)
(* The functions applied on their own.                                     *)
(***************************************************************************)
FnInit ==
  /\ fn_decision = NoDecision
  /\ fn_labels = <<>>
  /\ reporter_issues = <<>>
  /\ fn_report = NoReport
  /\ fn_sync = <<>>
  /\ fn_tracker = {}
  /\ fn_applied = 0
  /\ \/ /\ fn_pc = "issue"
        /\ fn_issue \in [number : {42}, labels : SUBSET IssueLabels]
        /\ fn_hostname \in Hostnames
        /\ fn_content = <<>>
        /\ fn_panel = <<>>
        /\ fn_extra = 1
        /\ fn_where = "lead"
     \/ /\ fn_pc = "text"
        /\ fn_issue = NoIssue
        /\ fn_hostname = "unknown"
        /\ \E in \in TranscriptInputs :
             /\ fn_content = Transcript(in[1], in[2], in[3])
             /\ fn_panel = in[1]
             /\ fn_extra = in[2]
             /\ fn_where = in[3]

\* should, reason = should_process(issue, hostname_tag)
CallShouldProcess ==
  /\ fn_pc = "issue"
  /\ fn_decision' = should_process(fn_issue, hostname_tag_of(fn_hostname))
  /\ fn_pc' = "decided"
  /\ UNCHANGED <<fn_input, fn_labels, reporter_issues, fn_report, fn_sync,
                 fn_tracker, fn_applied>>
  /\ UNCHANGED <<drv_vars, log_vars>>

\* result_labels, consensus_summary = analyze_results(results)
CallAnalyzeResults ==
  /\ fn_pc = "text"
  /\ fn_labels' = analyze_results(fn_content)
  /\ fn_pc' = "analyzed"
  /\ UNCHANGED <<fn_input, fn_decision, reporter_issues, fn_report, fn_sync,
                 fn_tracker, fn_applied>>
  /\ UNCHANGED <<drv_vars, log_vars>>

\* TriageReporter(run_dir) on a run directory that holds issue-42-results.txt
NewTriageReporter ==
  /\ fn_pc = "analyzed"
  /\ reporter_issues' = parse_all_results(42, fn_content)
  /\ fn_pc' = "parsed"
  /\ UNCHANGED <<fn_input, fn_decision, fn_labels, fn_report, fn_sync,
                 fn_tracker, fn_applied>>
  /\ UNCHANGED <<drv_vars, log_vars>>

\* reporter.consensus_report(output_json=True)
CallConsensusReport ==
  /\ fn_pc = "parsed"
  /\ fn_report' = consensus_report(DictMap(reporter_issues), DictKeys(reporter_issues))
  /\ fn_pc' = "reported"
  /\ UNCHANGED <<fn_input, fn_decision, fn_labels, reporter_issues, fn_sync,
                 fn_tracker, fn_applied>>
  /\ UNCHANGED <<drv_vars, log_vars>>

\* reporter.label_sync_report(output_json=True)
CallLabelSync ==
  /\ fn_pc = "reported"
  /\ fn_sync' = label_sync_report(reporter_issues)
  /\ fn_pc' = "synced"
  /\ UNCHANGED <<fn_input, fn_decision, fn_labels, reporter_issues, fn_report,
                 fn_tracker, fn_applied>>
  /\ UNCHANGED <<drv_vars, log_vars>>

\* the labels issue 42 carries after _apply_labels: one `gh issue edit
\* --add-label` per entry, which adds all the labels of the entry or, when
\* it fails, none
RECURSIVE edited(_, _, _)
edited(labels, items, oks) ==
  IF items = <<>> THEN labels
  ELSE edited(IF Head(oks) THEN labels \cup Range(Head(items).add_labels)
              ELSE labels,
              Tail(items), Tail(oks))

\* self._apply_labels(report); the `gh label create --force` calls change the
\* repository's list of labels, not the issue
ApplyLabels ==
  /\ fn_pc \in {"synced", "applied"}
  /\ fn_applied < MaxApplies
  /\ \E oks \in [1..Len(fn_sync) -> BOOLEAN] :
       fn_tracker' = edited(fn_tracker, fn_sync, oks)
  /\ fn_applied' = fn_applied + 1
  /\ fn_pc' = "applied"
  /\ UNCHANGED <<fn_input, fn_decision, fn_labels, reporter_issues, fn_report,
                 fn_sync>>
  /\ UNCHANGED <<drv_vars, log_vars>>

\* lines 219-224 of the next run of main, on a host of any name, for issue
\* 42 as the tracker lists it after the apply
NextDriverRun ==
  /\ fn_pc = "applied"
  /\ \E h \in Hostnames :
       fn_decision' = should_process([number |-> 42, labels |-> fn_tracker],
                                     hostname_tag_of(h))
  /\ fn_pc' = "rerun"
  /\ UNCHANGED <<fn_input, fn_labels, reporter_issues, fn_report, fn_sync,
                 fn_tracker, fn_applied>>
  /\ UNCHANGED <<drv_vars, log_vars>>

FnNext ==
  \/ CallShouldProcess
  \/ CallAnalyzeResults
  \/ NewTriageReporter
  \/ CallConsensusReport
  \/ CallLabelSync
  \/ ApplyLabels
  \/ NextDriverRun

(***************************************************************************)
(* triage_logger.py.  Dates are days of January 2025; times are in          *)
(* milliseconds, so that round(x, 2) is rounding to tens and round(x, 1)    *)
(* rounding to hundreds.                                                   *)
(***************************************************************************)

RAW_RETENTION_DAYS == 7
COMPRESS_AFTER_DAYS == 1

\* strftime("%Y%m%d") of a day
DayStamp(d) == "202501" \o (IF d < 10 THEN "0" ELSE "") \o ToString(d)

\* datetime.strptime(text, "%Y%m%d"): the day, or ValueError
strptime(text) ==
  IF \E d \in 1..31 : DayStamp(d) = text
  THEN [ok |-> TRUE, day |-> CHOOSE d \in 1..31 : DayStamp(d) = text]
  ELSE [ok |-> FALSE, day |-> 0]

\* the date when the first process starts
FirstDay == 9

\* a run id is the sequence of its parts between dashes: the default
\* strftime("%Y%m%d-%H%M%S"), or a name the caller gives
DefaultRunId(d) == <<DayStamp(d), "120000">>
RunIds == {DefaultRunId(d) : d \in {1, FirstDay}} \cup {<<"nightly">>}

\* item.name.split("-")[1][:8] for the log triage-<run id>.jsonl: the first
\* part of the run id, with the file's suffix when it is the only part
LogDateText(run_id) ==
  IF Len(run_id) >= 2 THEN run_id[1]
  ELSE CASE run_id = <<"nightly">> -> "nightly."

\* the entries of RAW_DIR: their names, item.name[:8], item.is_dir()
RawEntries ==
  {[name |-> "20250101-120000", head |-> "20250101", is_dir |-> TRUE],
   [name |-> "20250102-090000", head |-> "20250102", is_dir |-> TRUE],
   [name |-> "scratch", head |-> "scratch", is_dir |-> TRUE],
   [name |-> "20250101-notes.txt", head |-> "20250101", is_dir |-> FALSE]}

\* round(n / d) for n, d >= 0: the inputs of the model never lie half-way
RoundDiv(n, d) == (2 * n + d) \div (2 * d)
\* round(x, 2) and round(x, 1) of milliseconds, as milliseconds
Round2(ms) == 10 * RoundDiv(ms, 10)
Round1(ms) == 100 * RoundDiv(ms, 100)

LogModels == {"phi1", "phi2"}
\* time_sec of a logging call, in milliseconds
LogTimes == {16}

\* the records a log holds: the uncompressed file's, <<>> without the file
FileRecords(files, run_id) ==
  IF run_id \in DOMAIN files THEN files[run_id] ELSE <<>>

\* open(path, "w") in the place of open(path, "a")
Appended_truncating(files, run_id, entry) ==
  [r \in DOMAIN files \cup {run_id} |->
     IF r = run_id THEN <<entry>> ELSE files[r]]

\* with open(path, "a") as f: f.write(json.dumps(entry) + "\n")
Appended(files, run_id, entry) ==
  [r \in DOMAIN files \cup {run_id} |->
     IF r = run_id THEN Append(FileRecords(files, run_id), entry) ELSE files[r]]

\* with open(path, "w") as f: json.dump(...)
Stored(files, run_id, content) ==
  [r \in DOMAIN files \cup {run_id} |-> IF r = run_id THEN content ELSE files[r]]

\* an unlink that leaves the file in place
Removed_kept(files, run_id) == files

\* item.unlink()
Removed(files, run_id) == [r \in DOMAIN files \ {run_id} |-> files[r]]

NoStats == [runs |-> 0, time |-> 0, tokens |-> 0, failures |-> 0]

\* log_model_result: "Update running stats"
stats_after(model_stats, model, time_ms, tokens, status) ==
  LET old == IF model \in DOMAIN model_stats THEN model_stats[model] ELSE NoStats
      new == IF status = "done"
             THEN [old EXCEPT !.runs = @ + 1, !.time = @ + time_ms,
                              !.tokens = @ + tokens]
             ELSE [old EXCEPT !.failures = @ + 1]
  IN [m \in DOMAIN model_stats \cup {model} |->
        IF m = model THEN new ELSE model_stats[m]]

\* log_model_result: entry (the time stamp and the optional error text are
\* left out)
model_entry(issue_num, model, time_ms, tokens, status) ==
  [issue |-> issue_num, model |-> model, time |-> Round2(time_ms),
   tokens |-> tokens, status |-> status]

\* log_issue_complete: entry
complete_entry(issue_num, scope) ==
  [event |-> "issue_complete", issue |-> issue_num, scope |-> scope]

\* finalize: summary (start_time and duration_sec are left out)
summary_of(lg) ==
  [run_id |-> lg.run_id,
   issues_processed |-> lg.issues_processed,
   model_stats |->
     [m \in DOMAIN lg.model_stats |->
        LET st == lg.model_stats[m]
        IN [runs |-> st.runs,
            failures |-> st.failures,
            avg_time |-> IF st.runs # 0
                         THEN 10 * RoundDiv(st.time, 10 * st.runs) ELSE 0,
            avg_tokens |-> IF st.runs # 0
                           THEN RoundDiv(st.tokens, st.runs) ELSE 0,
            total_time |-> Round1(st.time)]]]

\* every run id of the model
AllRunIds == RunIds \cup {DefaultRunId(d) : d \in FirstDay..LastDay}

\* neither cleanup_old_data nor get_model_benchmarks is running
SweepIdle == sw_pc = "idle" /\ bench_pc = "idle"

\* the variables of the sweep and of the benchmarks
sweep_vars == <<sw_pc, sw_todo, sw_item, gz_open, cleaned, before, again>>
bench_vars == <<bench_pc, bench_sel, bench>>

\* TriageLogger(run_id), or TriageLogger() for the default run id
NewLogger(run_id) ==
  /\ logger = <<>>
  /\ SweepIdle
  /\ log_calls < MaxCalls
  /\ log_calls' = log_calls + 1
  /\ logger' = <<[run_id |-> run_id, issues_processed |-> 0,
                  model_stats |-> [m \in {} |-> NoStats]]>>
  /\ at_open' = FileRecords(jsonl, run_id)
  /\ sent' = <<>>
  /\ fresh' = FALSE
  /\ UNCHANGED <<today, jsonl, gz, summaries, raw>>
  /\ UNCHANGED <<sweep_vars, bench_vars>>
  /\ UNCHANGED <<fn_vars, drv_vars>>

\* logger.log_model_result(issue_num, model, time_sec, tokens, tok_sec, status)
LogModelResult(issue_num, model, time_ms, tokens, status) ==
  /\ logger # <<>>
  /\ log_calls < MaxCalls
  /\ log_calls' = log_calls + 1
  /\ LET entry == model_entry(issue_num, model, time_ms, tokens, status)
     IN /\ jsonl' = Appended(jsonl, logger[1].run_id, entry)
        /\ sent' = Append(sent, entry)
  /\ logger' = <<[logger[1] EXCEPT !.model_stats =
                    stats_after(@, model, time_ms, tokens, status)]>>
  /\ fresh' = FALSE
  /\ UNCHANGED <<today, gz, summaries, raw, at_open>>
  /\ UNCHANGED <<sweep_vars, bench_vars>>
  /\ UNCHANGED <<fn_vars, drv_vars>>

\* logger.log_issue_complete(issue_num, title, winner_model, scope_consensus)
LogIssueComplete(issue_num, scope) ==
  /\ logger # <<>>
  /\ log_calls < MaxCalls
  /\ log_calls' = log_calls + 1
  /\ LET entry == complete_entry(issue_num, scope)
     IN /\ jsonl' = Appended(jsonl, logger[1].run_id, entry)
        /\ sent' = Append(sent, entry)
  /\ logger' = <<[logger[1] EXCEPT !.issues_processed = @ + 1]>>
  /\ fresh' = FALSE
  /\ UNCHANGED <<today, gz, summaries, raw, at_open>>
  /\ UNCHANGED <<sweep_vars, bench_vars>>
  /\ UNCHANGED <<fn_vars, drv_vars>>

\* logger.finalize()
Finalize ==
  /\ logger # <<>>
  /\ summaries' = Stored(summaries, logger[1].run_id, summary_of(logger[1]))
  /\ fresh' = TRUE
  /\ log_calls < MaxCalls
  /\ log_calls' = log_calls + 1
  /\ UNCHANGED <<today, jsonl, gz, raw, logger, at_open, sent>>
  /\ UNCHANGED <<sweep_vars, bench_vars>>
  /\ UNCHANGED <<fn_vars, drv_vars>>

\* the process that holds the object ends
CloseLogger ==
  /\ logger # <<>>
  /\ logger' = <<>>
  /\ at_open' = <<>>
  /\ sent' = <<>>
  /\ fresh' = FALSE
  /\ UNCHANGED <<today, jsonl, gz, summaries, raw, log_calls>>
  /\ UNCHANGED <<sweep_vars, bench_vars>>
  /\ UNCHANGED <<fn_vars, drv_vars>>

\* midnight
Tick ==
  /\ today < LastDay
  /\ SweepIdle
  /\ today' = today + 1
  /\ UNCHANGED <<jsonl, gz, summaries, raw, logger, at_open, sent, fresh,
                 log_calls>>
  /\ UNCHANGED <<sweep_vars, bench_vars>>
  /\ UNCHANGED <<fn_vars, drv_vars>>

\* what a sweep finds: the date and the files
Tree == [today |-> today, raw |-> raw, jsonl |-> jsonl, gz |-> gz,
         summaries |-> summaries]
NoCounts == [deleted |-> 0, compressed |-> 0]

\* cleanup_old_data: age = (now - date).days, for a name that parses
age_of(text) == today - strptime(text).day

\* cleanup_old_data is called; RAW_DIR.iterdir()
StartSweep ==
  /\ sw_pc \in {"idle", "done"}
  /\ bench_pc = "idle"
  /\ logger = <<>>
  /\ sw_pc' = "raw"
  /\ sw_todo' = raw
  /\ cleaned' = NoCounts
  /\ before' = Tree
  /\ again' = (sw_pc = "done")
  /\ UNCHANGED <<today, jsonl, gz, summaries, raw, logger, at_open, sent,
                 fresh, log_calls, sw_item>>
  /\ UNCHANGED <<gz_open, bench_vars>>
  /\ UNCHANGED <<fn_vars, drv_vars>>

\* cleanup_old_data: the entries of RAW_DIR the loop removes
expired(entries) ==
  {item \in entries : /\ item.is_dir
                      /\ strptime(item.head).ok
                      /\ age_of(item.head) > RAW_RETENTION_DAYS}

\* cleanup_old_data: the loop over RAW_DIR
SweepRaw ==
  /\ sw_pc = "raw"
  /\ sw_todo # {}
  /\ raw' = raw \ expired(sw_todo)
  /\ cleaned' = [cleaned EXCEPT !.deleted = @ + Cardinality(expired(sw_todo))]
  /\ sw_todo' = {}
  /\ UNCHANGED <<today, jsonl, gz, summaries, logger, at_open, sent, fresh,
                 log_calls, sw_pc, sw_item, before, again>>
  /\ UNCHANGED <<gz_open, bench_vars>>
  /\ UNCHANGED <<fn_vars, drv_vars>>

\* cleanup_old_data: JSONL_DIR.glob("*.jsonl")
SweepGlob ==
  /\ sw_pc = "raw"
  /\ sw_todo = {}
  /\ sw_pc' = "logs"
  /\ sw_todo' = DOMAIN jsonl
  /\ UNCHANGED <<today, jsonl, gz, summaries, raw, logger, at_open, sent,
                 fresh, log_calls, sw_item, cleaned, before, again>>
  /\ UNCHANGED <<gz_open, bench_vars>>
  /\ UNCHANGED <<fn_vars, drv_vars>>

\* cleanup_old_data: one turn of the loop over the logs, up to
\* gzip.open(str(item) + '.gz', 'wb'), which creates the target or truncates
\* the one that exists
SweepLog ==
  /\ sw_pc = "logs"
  /\ \E run_id \in sw_todo :
       IF /\ strptime(LogDateText(run_id)).ok
          /\ age_of(LogDateText(run_id)) > COMPRESS_AFTER_DAYS
       THEN /\ gz' = Stored(gz, run_id, <<>>)
            /\ gz_open' = gz_open \cup {run_id}
            /\ sw_item' = <<run_id>>
            /\ sw_pc' = "copy"
            /\ UNCHANGED sw_todo
       ELSE /\ sw_todo' = sw_todo \ {run_id}
            /\ UNCHANGED <<gz, gz_open, sw_item, sw_pc>>
  /\ UNCHANGED <<today, jsonl, summaries, raw, logger, at_open, sent, fresh,
                 log_calls, cleaned, before, again>>
  /\ UNCHANGED bench_vars
  /\ UNCHANGED <<fn_vars, drv_vars>>

\* cleanup_old_data: shutil.copyfileobj(f_in, f_out) and the end of the two
\* with blocks, which closes the compressed copy
SweepCopy ==
  /\ sw_pc = "copy"
  /\ gz' = Stored(gz, sw_item[1], jsonl[sw_item[1]])
  /\ gz_open' = gz_open \ {sw_item[1]}
  /\ sw_pc' = "unlink"
  /\ UNCHANGED <<today, jsonl, summaries, raw, logger, at_open, sent, fresh,
                 log_calls, sw_todo, sw_item, cleaned, before, again>>
  /\ UNCHANGED bench_vars
  /\ UNCHANGED <<fn_vars, drv_vars>>

\* the process that sweeps is killed between two steps of cleanup_old_data:
\* the files stay as they are
SweepCrash ==
  /\ sw_pc \in {"raw", "logs", "copy", "unlink"}
  /\ sw_pc' = "idle"
  /\ sw_todo' = {}
  /\ sw_item' = <<>>
  /\ cleaned' = NoCounts
  /\ before' = <<>>
  /\ again' = FALSE
  /\ UNCHANGED <<today, jsonl, gz, summaries, raw, logger, at_open, sent,
                 fresh, log_calls, gz_open>>
  /\ UNCHANGED bench_vars
  /\ UNCHANGED <<fn_vars, drv_vars>>

\* cleanup_old_data: item.unlink() and the count
SweepUnlink ==
  /\ sw_pc = "unlink"
  /\ jsonl' = Removed(jsonl, sw_item[1])
  /\ cleaned' = [cleaned EXCEPT !.compressed = @ + 1]
  /\ sw_todo' = sw_todo \ {sw_item[1]}
  /\ sw_item' = <<>>
  /\ sw_pc' = "logs"
  /\ UNCHANGED <<today, gz, summaries, raw, logger, at_open, sent, fresh,
                 log_calls, before, again>>
  /\ UNCHANGED <<gz_open, bench_vars>>
  /\ UNCHANGED <<fn_vars, drv_vars>>

\* cleanup_old_data: return cleaned
SweepReturn ==
  /\ sw_pc = "logs"
  /\ sw_todo = {}
  /\ sw_pc' = "done"
  /\ UNCHANGED <<today, jsonl, gz, summaries, raw, logger, at_open, sent,
                 fresh, log_calls, sw_todo, sw_item, cleaned, before, again>>
  /\ UNCHANGED <<gz_open, bench_vars>>
  /\ UNCHANGED <<fn_vars, drv_vars>>

\* the process that swept ends
SweepExit ==
  /\ sw_pc = "done"
  /\ sw_pc' = "idle"
  /\ cleaned' = NoCounts
  /\ before' = <<>>
  /\ again' = FALSE
  /\ UNCHANGED <<today, jsonl, gz, summaries, raw, logger, at_open, sent,
                 fresh, log_calls, sw_todo, sw_item>>
  /\ UNCHANGED <<gz_open, bench_vars>>
  /\ UNCHANGED <<fn_vars, drv_vars>>

\* every order of the members of a set
RECURSIVE Orders(_)
Orders(S) ==
  IF S = {} THEN {<<>>}
  ELSE UNION {{<<x>> \o rest : rest \in Orders(S \ {x})} : x \in S}

NoTotals == [runs |-> 0, failures |-> 0, total_time |-> 0, total_tokens |-> 0]

\* get_model_benchmarks: the loop over the summaries, paths that do not
\* exist skipped
RECURSIVE aggregated(_, _)
aggregated(files, paths) ==
  IF paths = <<>> THEN [m \in {} |-> NoTotals]
  ELSE LET sofar == aggregated(files, SubSeq(paths, 1, Len(paths) - 1))
           last == paths[Len(paths)]
       IN IF last \notin DOMAIN files THEN sofar
          ELSE LET stats == files[last].model_stats
               IN [m \in DOMAIN sofar \cup DOMAIN stats |->
                     LET agg == IF m \in DOMAIN sofar THEN sofar[m] ELSE NoTotals
                     IN IF m \notin DOMAIN stats THEN agg
                        ELSE [runs |-> agg.runs + stats[m].runs,
                              failures |-> agg.failures + stats[m].failures,
                              total_time |-> agg.total_time + stats[m].total_time,
                              total_tokens |-> agg.total_tokens
                                + stats[m].avg_tokens * stats[m].runs]]

\* get_model_benchmarks: "Calculate averages"; a model with no successful
\* run gets none of the three keys
averaged(agg) ==
  [m \in DOMAIN agg |->
     [runs |-> agg[m].runs,
      failures |-> agg[m].failures,
      total_time |-> agg[m].total_time,
      total_tokens |-> agg[m].total_tokens,
      rates |-> IF agg[m].runs > 0
                THEN <<[avg_time |-> 10 * RoundDiv(agg[m].total_time,
                                                    10 * agg[m].runs),
                        avg_tokens |-> RoundDiv(agg[m].total_tokens, agg[m].runs),
                        failure_rate |-> RoundDiv(1000 * agg[m].failures,
                                                  agg[m].runs + agg[m].failures)]>>
                ELSE <<>>]]

get_model_benchmarks(files, paths) == averaged(aggregated(files, paths))

\* a run id nobody has logged under
MissingRun == <<"20250105", "120000">>

\* get_model_benchmarks(run_ids) for run ids in some order, none twice, or
\* get_model_benchmarks() for every summary in the order the glob yields
CallBenchmarks ==
  /\ sw_pc = "idle"
  /\ bench_pc = "idle"
  /\ logger = <<>>
  /\ \E run_ids \in SUBSET (DOMAIN summaries \cup {MissingRun}) :
       /\ bench_sel' = run_ids
       /\ \E paths \in Orders(run_ids) :
            bench' = get_model_benchmarks(summaries, paths)
  /\ bench_pc' = "returned"
  /\ UNCHANGED <<today, jsonl, gz, summaries, raw, logger, at_open, sent,
                 fresh, log_calls>>
  /\ UNCHANGED sweep_vars
  /\ UNCHANGED <<fn_vars, drv_vars>>

\* the process that asked for the benchmarks ends
BenchExit ==
  /\ bench_pc = "returned"
  /\ bench_pc' = "idle"
  /\ bench_sel' = {}
  /\ bench' = <<>>
  /\ UNCHANGED <<today, jsonl, gz, summaries, raw, logger, at_open, sent,
                 fresh, log_calls>>
  /\ UNCHANGED sweep_vars
  /\ UNCHANGED <<fn_vars, drv_vars>>

\* a run of an earlier day, logged and finalized
OldRun == DefaultRunId(1)
OldEntry == model_entry(42, "phi1", 1500, 120, "done")
OldLogger == [run_id |-> OldRun, issues_processed |-> 0,
              model_stats |-> stats_after([m \in {} |-> NoStats],
                                           "phi1", 1500, 120, "done")]

\* nothing of triage_logger.py runs
LogIdle ==
  /\ logger = <<>>
  /\ at_open = <<>>
  /\ sent = <<>>
  /\ fresh = FALSE
  /\ log_calls = 0
  /\ sw_pc = "idle"
  /\ sw_todo = {}
  /\ sw_item = <<>>
  /\ gz_open = {}
  /\ cleaned = NoCounts
  /\ before = <<>>
  /\ again = FALSE
  /\ bench_pc = "idle"
  /\ bench_sel = {}
  /\ bench = <<>>

\* the files when the first process starts: none, or those of the old run
LogInit ==
  /\ today = FirstDay
  /\ raw = RawEntries
  /\ \E old \in BOOLEAN :
       /\ jsonl = IF old THEN Stored(<<>>, OldRun, <<OldEntry>>) ELSE <<>>
       /\ summaries = IF old THEN Stored(<<>>, OldRun, summary_of(OldLogger))
                                ELSE <<>>
  /\ gz = <<>>
  /\ LogIdle

\* the logger part left alone
LogParked ==
  /\ today = FirstDay
  /\ raw = RawEntries
  /\ jsonl = <<>>
  /\ summaries = <<>>
  /\ gz = <<>>
  /\ LogIdle

LogNext ==
  \/ \E run_id \in RunIds \cup {DefaultRunId(today)} : NewLogger(run_id)
  \/ \E time_ms \in LogTimes : LogModelResult(42, "phi1", time_ms, 120, "done")
  \/ \E model \in LogModels : LogModelResult(42, model, 0, 0, "failed")
  \/ LogIssueComplete(42, "M")
  \/ Finalize
  \/ CloseLogger
  \/ Tick
  \/ StartSweep
  \/ SweepRaw
  \/ SweepGlob
  \/ SweepLog
  \/ SweepCopy
  \/ SweepUnlink
  \/ SweepReturn
  \/ SweepExit
  \/ CallBenchmarks
  \/ BenchExit

\* the sweep, the writers of the logs between two sweeps, and the sweep's
\* process killed at any point
CrashNext ==
  \/ \E run_id \in RunIds \cup {DefaultRunId(today)} : NewLogger(run_id)
  \/ \E model \in LogModels : LogModelResult(42, model, 0, 0, "failed")
  \/ CloseLogger
  \/ Tick
  \/ StartSweep
  \/ SweepRaw
  \/ SweepGlob
  \/ SweepLog
  \/ SweepCopy
  \/ SweepUnlink
  \/ SweepReturn
  \/ SweepExit
  \/ SweepCrash

Init == DrvInit /\ FnParked /\ LogParked
Next == DrvNext

\* the Driver
Spec == Init /\ [][Next]_vars

\* the steps main takes by itself once a run has started
DriverStep ==
  \/ SkipIssue \/ HealthCheck \/ HealthRecheck \/ SavePrompt \/ RunCatfight
  \/ ReadResults \/ WriteComment \/ PostComment \/ AddLabel \/ FinishIssue
  \/ PrintReport

\* the Driver when every call it makes returns or raises: main is sequential,
\* so a run that has started takes its next step
SpecFair == Init /\ [][Next]_vars /\ WF_vars(DriverStep)

\* the Driver when an external process may also never return: a call with a
\* timeout then ends as a timeout (an unhealthy check, a failed write, a
\* timed-out invocation), a call without one keeps main waiting
NextHang == DrvNext \/ PostCommentHangs
SpecHang == Init /\ [][NextHang]_vars /\ WF_vars(DriverStep)

InitFn == FnInit /\ DrvParked /\ LogParked

\* the functions on their own
SpecFn == InitFn /\ [][FnNext]_vars

\* the logger, the retention sweep and the benchmarks over the files under
\* ~/.clood/triage, the driver and the functions left alone
InitLog == LogInit /\ DrvParked /\ FnParked
SpecLog == InitLog /\ [][LogNext]_vars

\* the retention sweep with its process killed at any point
SpecCrash == InitLog /\ [][CrashNext]_vars

(***************************************************************************)
(* The claims on the functions, under SpecFn.                              *)
(***************************************************************************)

Sizes == {"XS", "S", "M", "L", "XL"}
ScopeLabels == {"scope:" \o x : x \in Sizes}

\* the places of fn_labels that hold a label of the set ls
LabelsIn(ls) == {k \in 1..Len(fn_labels) : fn_labels[k] \in ls}

\* the text has been analysed
Analysed == fn_pc \in {"analyzed", "parsed", "reported"}

\* C1: should_process skips exactly when needs-retriage is absent and the
\* host tag or the generic `triaged` is present, and processes otherwise;
\* `triage-failed` alone never skips; the call changes nothing but its result,
\* and computing the decision again from the same labels and tag gives the
\* same decision.
C1_ShouldProcessRule ==
  [][fn_pc = "issue" =>
       LET L == fn_issue.labels
           H == hostname_tag_of(fn_hostname)
           skip == "needs-retriage" \notin L /\ (H \in L \/ "triaged" \in L)
       IN /\ fn_pc' = "decided"
          /\ fn_decision'.should = ~skip
          /\ (L = {"triage-failed"} => fn_decision'.should)
          /\ fn_decision' = should_process([number |-> 7, labels |-> L], H)
          /\ fn_issue' = fn_issue /\ fn_hostname' = fn_hostname
          /\ UNCHANGED <<drv_vars, log_vars>>]_vars

\* C1: an issue with the generic tag is skipped on a laptop
C1_Witness ==
  /\ fn_pc = "decided"
  /\ fn_issue.labels = {"triaged", "triage-failed"}
  /\ hostname_tag_of(fn_hostname) = "triaged:laptop"
  /\ ~fn_decision.should

\* C5: with at least one vote in the Driver's tally, analyze_results gives
\* scope:<size> of the top size when top > total / 2 and scope-disputed
\* otherwise, never both and never two scope labels; {M:3,S:2} gives scope:M,
\* {M:2,S:2,L:1} and a 50/50 tie give scope-disputed.
C5_MajorityRule ==
  /\ scope_labels(<<"M", "M", "M", "S", "S">>) = <<"scope:M">>
  /\ scope_labels(<<"M", "M", "S", "S", "L">>) = <<"scope-disputed">>
  /\ scope_labels(<<"M", "S", "M", "S">>) = <<"scope-disputed">>
  /\ Analysed =>
       LET sizes == extract_size_estimates(fn_content)
           total == Len(sizes)
           top == CHOOSE c \in 0..total :
                    /\ \E x \in Sizes : CountOf(sizes, x) = c
                    /\ \A x \in Sizes : CountOf(sizes, x) <= c
       IN total >= 1 =>
            /\ Cardinality(LabelsIn(ScopeLabels \cup {"scope-disputed"})) = 1
            /\ IF 2 * top > total
               THEN \E x \in Sizes :
                      /\ CountOf(sizes, x) = top
                      /\ LabelsIn({"scope:" \o x}) # {}
               ELSE LabelsIn({"scope-disputed"}) # {}

\* C5: the tally {M:3, S:2} has been given scope:M
C5_Witness ==
  /\ fn_pc = "analyzed"
  /\ LET sizes == extract_size_estimates(fn_content)
     IN /\ Len(sizes) = 5
        /\ CountOf(sizes, "M") = 3
        /\ CountOf(sizes, "S") = 2
  /\ fn_labels[1] = "scope:M"

\* the transcript of three contestants answering `**Size:** M`, `**Size:** M`
\* and `Size: S`
C6_Scenario == Transcript(<<"boldM", "boldM", "plainS">>, 1, "lead")

\* C6: for the three answers `**Size:** M`, `**Size:** M`, `Size: S` without
\* a hedge phrase the tally is {M:2, S:1}, the Driver's labels are scope:M
\* (not scope-disputed) and actionable, the consensus scope is M and the level
\* 2/3 is in the medium bucket.
C6_EndToEnd ==
  (fn_pc = "reported" /\ fn_content = C6_Scenario) =>
    LET sizes == extract_size_estimates(fn_content)
        d == reporter_issues[1].val
    IN /\ Len(sizes) = 3
       /\ CountOf(sizes, "M") = 2
       /\ CountOf(sizes, "S") = 1
       /\ fn_labels = <<"scope:M", "actionable">>
       /\ d.scope_consensus = "M"
       /\ d.consensus_level = [num |-> 2, den |-> 3]
       /\ fn_report["medium_consensus"] = <<42>>

\* the contestants of the panel that answered
Responses == {k \in 1..Len(fn_panel) : fn_panel[k] # "failed"}

\* C24: when the Reporter finds one vote in every response of the transcript
\* and its top size has more than half of these votes, the first label of
\* analyze_results is the scope label of that size.
C24_SameScope ==
  (fn_pc \in {"parsed", "reported"} /\ reporter_issues # <<>>) =>
    LET d == reporter_issues[1].val
    IN (/\ Responses # {}
        /\ Len(d.scopes) = Cardinality(Responses)
        /\ 2 * d.consensus_level.num > d.consensus_level.den) =>
         fn_labels[1] = "scope:" \o d.scope_consensus

\* the extra texts that hold one of the seven hedge phrases in some spelling
HedgedExtras ==
  {<<"###", SP, "Open", SP, "Questions">>,
   <<"requirements", SP, "are", SP, "Unclear">>,
   <<"Need", SP, "more", SP, "information">>,
   <<"needs", SP, "clarification">>,
   <<"AMBIGUOUS">>,
   <<"not", SP, "specified">>,
   <<"missing", SP, "requirement">>,
   <<"unambiguous">>,
   <<"###", SP, "Open", SP, "Questions", NL, "-", SP, "text">>}

\* C9: analyze_results returns exactly one of needs-clarification and
\* actionable: needs-clarification exactly when one of the seven hedge phrases
\* occurs in the text, in any letter case, and actionable otherwise.
C9_QualityLabel ==
  Analysed =>
    /\ Cardinality(LabelsIn({"needs-clarification", "actionable"})) = 1
    /\ LabelsIn({"needs-clarification"}) # {}
         <=> \E k \in 1..Len(Indicators) : HasPhrase(Indicators[k], fn_content)
    /\ LabelsIn({"needs-clarification"}) # {} <=> ExtraTexts[fn_extra] \in HedgedExtras

\* C9: a text saying `unambiguous` has been given needs-clarification
C9_Witness ==
  /\ fn_pc = "analyzed"
  /\ fn_content = Transcript(<<"plain">>, 9, "body")
  /\ ExtraTexts[fn_extra] = <<"unambiguous">>
  /\ fn_labels = <<"needs-clarification">>

\* C10: the consensus report puts a parsed issue in exactly one bucket:
\* needs_review when succeeded < 0.75 * run; otherwise high when
\* level >= 0.75, medium when level >= 0.5, low when level >= 0.25, none
\* otherwise, where level = top votes / total votes, 0 without votes.
C10_Buckets ==
  (fn_pc = "reported" /\ reporter_issues # <<>>) =>
    LET d == reporter_issues[1].val
        votes == d.scopes
        total == Len(votes)
        top == CHOOSE c \in 0..total :
                 /\ \E x \in Sizes : ScopeCount(votes, x) = c
                 /\ \A x \in Sizes : ScopeCount(votes, x) <= c
        bucket ==
          IF 4 * d.models_succeeded < 3 * d.models_run THEN "needs_review"
          ELSE IF total = 0 THEN "no_consensus"
          ELSE IF 4 * top >= 3 * total THEN "high_consensus"
          ELSE IF 4 * top >= 2 * total THEN "medium_consensus"
          ELSE IF 4 * top >= total THEN "low_consensus"
          ELSE "no_consensus"
    IN \A b \in Buckets : fn_report[b] = IF b = bucket THEN <<42>> ELSE <<>>

\* C10: a level of exactly 0.75 with every contestant done is in high
C10_Witness ==
  /\ fn_pc = "reported"
  /\ LET d == reporter_issues[1].val
     IN /\ d.scope_votes = 3 /\ d.total_votes = 4
        /\ d.models_succeeded = 4 /\ d.models_run = 4
  /\ fn_report["high_consensus"] = <<42>>

\* the transcripts of at most one contestant and no extra text: what the
\* parser reads as their responses, and what the Driver decides for them
C11_Plain ==
  {[responses |-> parse_results_file(Transcript(cs, 1, "lead")).responses,
    labels |-> analyze_results(Transcript(cs, 1, "lead"))] :
     cs \in SeqsUpTo(EntryKinds, 1)}

\* C11: a transcript whose per-contestant responses are those of another
\* transcript gets the same scope label and the same needs-clarification /
\* actionable label from the Driver, whatever the text outside the response
\* sections.
C11_ResponsesOnly ==
  (Analysed /\ ~WinnerRaises(fn_content)) =>
    \A t \in C11_Plain :
      t.responses = parse_results_file(fn_content).responses
        => fn_labels = t.labels

\* the response section of contestant k as the transcript holds it
SectionBody(k) ==
  Answer(fn_panel[k])
    \o (IF k = FirstDone(fn_panel) /\ fn_where = "body"
        THEN <<NL>> \o ExtraTexts[fn_extra] ELSE <<>>)

\* the transcript holds a WINNER line
HasWinnerLine ==
  \/ WinnerLine(fn_panel) # <<>>
  \/ (Len(ExtraTexts[fn_extra]) > 0 /\ ExtraTexts[fn_extra][1] = "WINNER:")

\* C12: parse_results_file returns for every transcript, with one attempt per
\* status line in order: done with the three numbers for a DONE line, failed
\* without them for a FAILED line; no contestant gives no attempt and no
\* response, and no WINNER line gives an unset winner.
C12_ParserContract ==
  fn_pc \in {"parsed", "reported", "synced", "applied"} =>
    LET r == parse_results_file(fn_content)
    IN /\ ~r.raised
       /\ Len(r.models) = Len(fn_panel)
       /\ \A k \in 1..Len(fn_panel) :
            /\ r.models[k].name = ContestantName(k)
            /\ r.models[k].model = ContestantModel(k)
            /\ IF fn_panel[k] = "failed"
               THEN /\ r.models[k].status = "failed"
                    /\ r.models[k].time = <<>>
                    /\ r.models[k].tokens = <<>>
                    /\ r.models[k].toks = <<>>
               ELSE /\ r.models[k].status = "done"
                    /\ r.models[k].time = <<"1.5s">>
                    /\ r.models[k].tokens = <<"120">>
                    /\ r.models[k].toks = <<"80.0">>
       /\ fn_panel = <<>> => (r.models = <<>> /\ r.responses = <<>>)
       /\ ~HasWinnerLine => r.winner = <<>>

\* C13: the response recorded for a model is the whole text of its section,
\* from the separator to the next section of a contestant or to the end of
\* the transcript, trimmed, sub-headings included.
C13_WholeSection ==
  (fn_pc \in {"parsed", "reported", "synced", "applied"}
     /\ ~WinnerRaises(fn_content)) =>
    LET responses == parse_results_file(fn_content).responses
    IN \A k \in 1..Len(fn_panel) :
         fn_panel[k] # "failed" =>
           \E j \in 1..Len(responses) :
             /\ responses[j].key = ContestantModel(k)
             /\ responses[j].val = Strip(SectionBody(k))

SyncConsensusLabels ==
  {"consensus:high", "consensus:medium", "consensus:low", "needs-scope-review"}
SyncScopeLabels == {"scope:xs", "scope:s", "scope:m", "scope:l", "scope:xl"}

\* the labels the label-sync report wants on issue 42
Desired == UNION {Range(fn_sync[k].add_labels) : k \in 1..Len(fn_sync)}

OpenQuestionsHeader == <<"###", SP, "Open", SP, "Questions">>

\* the transcript holds the header, in a response or on a line of its own
HasOpenQuestionsHeader ==
  LET x == ExtraTexts[fn_extra]
  IN /\ Len(x) >= Len(OpenQuestionsHeader)
     /\ SubSeq(x, 1, Len(OpenQuestionsHeader)) = OpenQuestionsHeader

\* C29: a transcript that holds the header `### Open Questions` of the prompt
\* template, with or without an item under it, is given needs-clarification
\* by analyze_results and not actionable.
C29_HeaderHedges ==
  (Analysed /\ HasOpenQuestionsHeader) =>
    /\ LabelsIn({"needs-clarification"}) # {}
    /\ LabelsIn({"actionable"}) = {}

\* C29: a response that ends with the bare header, nothing under it, has
\* been given needs-clarification next to its scope label
C29_Witness ==
  /\ fn_pc = "analyzed"
  /\ fn_panel = <<"boldM">>
  /\ fn_where = "body"
  /\ ExtraTexts[fn_extra] = OpenQuestionsHeader
  /\ fn_labels = <<"scope:M", "needs-clarification">>

\* C27: once the labels of the label-sync report are on the tracker, on an
\* issue that carried none before, the next run of the Driver processes the
\* issue of the results file exactly when fewer than three quarters of its
\* contestants answered, and skips it otherwise, whatever the host.
C27_NextRun ==
  (fn_pc = "rerun" /\ Desired \subseteq fn_tracker) =>
    (fn_decision.should <=> 4 * Cardinality(Responses) < 3 * Len(fn_panel))

(***************************************************************************)
(* The claims on the Driver, under Spec and SpecFair.                      *)
(***************************************************************************)

\* where main stands while a run is under way
InRun ==
  {"loop", "sleep30", "prompt", "catfight", "read", "comment", "post", "labels"}

\* the entries of the given class in `counted`
CountedAs(class) == {k \in 1..Len(counted) : counted[k].class = class}

\* C2: every issue the loop has handled is counted in exactly one of
\* processed, skipped, failed: after k issues the three counts sum to k, each
\* issue has one entry with one class, and the final report's counts sum to
\* the total, the length of the backlog.
C2_Counts ==
  pc \in InRun \cup {"report", "crashed"} =>
    /\ processed + skipped + failed = i - 1
    /\ Len(counted) = i - 1
    /\ \A k \in 1..Len(counted) : counted[k].issue = k
    /\ processed = Cardinality(CountedAs("processed"))
    /\ skipped = Cardinality(CountedAs("skipped"))
    /\ failed = Cardinality(CountedAs("failed"))
    /\ pc = "report" =>
         /\ i = Len(issues) + 1
         /\ report[1].processed + report[1].skipped + report[1].failed
              = report[1].total
         /\ report[1].total = Len(issues)
         /\ report[1].processed = processed
         /\ report[1].skipped = skipped
         /\ report[1].failed = failed

\* C2: a report of one processed and one failed issue out of two
C2_Witness ==
  /\ pc = "report"
  /\ report[1] = [processed |-> 1, skipped |-> 0, failed |-> 1, total |-> 2]

\* C3, as claimed: an issue processed by an earlier run with every write
\* effective, and without a needs-retriage since, is skipped by every later
\* run, on whatever host.
C3_SkippedOnAnyHost ==
  pc \in InRun =>
    \A k \in i..Len(issues) :
      triaged_by[issues[k].number] # "" =>
        /\ ~should_process(issues[k], hostname_tag).should
        /\ k = i => pc = "loop"

\* C3: an issue processed by an earlier run with every write effective, and
\* without a needs-retriage since, is skipped, and the comparison tool not
\* invoked for it, by every later run whose host tag is the tag that run
\* wrote, and by every later run when that tag is the generic `triaged`.
C3_SkippedOnSameTag ==
  pc \in InRun =>
    \A k \in i..Len(issues) :
      LET T == triaged_by[issues[k].number]
      IN (T # "" /\ (T = hostname_tag \/ T = "triaged")) =>
           /\ ~should_process(issues[k], hostname_tag).should
           /\ k = i => pc = "loop"

\* C3: a run on the Mac Mini has skipped an issue that a run on a host with
\* the generic tag had processed
C3_Witness ==
  /\ pc = "loop"
  /\ hostname_tag = "triaged:mini"
  /\ Len(counted) >= 1
  /\ counted[1].class = "skipped"
  /\ triaged_by[issues[1].number] = "triaged"

\* C4: whatever the outcome of the health checks, the invocation, the read,
\* the analysis, the comment and the label writes of an issue, main goes on
\* with the same issue or to the next one in order and never leaves the loop;
\* a run that has started prints the final report after the last issue,
\* unless a prompt cannot be saved.
C4_NeverAborts ==
  /\ [][(pc \in InRun \ {"prompt"}) =>
          /\ pc' \in InRun \cup {"report"}
          /\ issues' = issues
          /\ \/ i' = i
             \/ i' = i + 1 /\ pc' = "loop" /\ i <= Len(issues)
          /\ pc' = "report" =>
               /\ i = Len(issues) + 1
               /\ report' = <<[processed |-> processed, skipped |-> skipped,
                               failed |-> failed, total |-> Len(issues)]>>
       ]_vars
  /\ [][(pc' = "crashed" /\ pc # "crashed") => pc = "prompt"]_vars
  /\ (pc \in InRun) ~> (pc \in {"report", "crashed"})

\* C4: the report has been printed after a run whose first issue failed
C4_Witness ==
  /\ pc = "report"
  /\ Len(issues) = 2
  /\ counted[1].class = "failed"
  /\ counted[2].class = "processed"

\* C7: an issue that is not skipped gets a health check first; an unhealthy
\* answer is followed by one wait and one re-check; a second unhealthy answer
\* gives the triage-failed write, failed + 1, no invocation and no comment; at
\* most two checks are made, and a healthy one leads to the prompt and from
\* there to the invocation (or to the end of the run when the prompt cannot
\* be saved).
C7_HealthCheck ==
  /\ [](checks <= 2)
  /\ [][(pc = "loop" /\ i <= Len(issues) /\ skipped' = skipped) =>
          /\ checks' = 1
          /\ calls' = <<>>
          /\ pc' \in {"prompt", "sleep30"}
          /\ i' = i]_vars
  /\ [][pc = "sleep30" =>
          /\ checks = 1
          /\ \/ /\ pc' = "prompt"
                /\ checks' = 2
                /\ calls' = <<>>
                /\ i' = i
             \/ /\ pc' = "loop"
                /\ i' = i + 1
                /\ failed' = failed + 1
                /\ processed' = processed
                /\ calls' = <<Call("add", "triage-failed")>>
                /\ counted' = Append(counted, [issue |-> i, class |-> "failed"])]_vars
  /\ [][pc' = "prompt" => pc \in {"loop", "sleep30"}]_vars
  /\ [][pc = "prompt" => pc' \in {"catfight", "crashed"}]_vars
  /\ [][pc' = "catfight" => pc = "prompt"]_vars

\* C7: the second health check was unhealthy too: the issue has failed with
\* the label write as its only call
C7_Witness ==
  /\ pc = "loop"
  /\ i = 2
  /\ counted[1].class = "failed"
  /\ calls = <<Call("add", "triage-failed")>>

\* C8: when the invocation times out or raises, main issues the
\* triage-failed write, adds one to failed and not to processed, makes no
\* other call for the issue (no comment, no other label, no second
\* invocation) and goes on to the next issue; it never comes back to an issue.
C8_InvocationFailure ==
  /\ [][(pc = "catfight" /\ pc' # "read") =>
          /\ pc' = "loop"
          /\ i' = i + 1
          /\ failed' = failed + 1
          /\ processed' = processed
          /\ skipped' = skipped
          /\ Len(calls') = 2
          /\ calls'[1].op = "catfight"
          /\ calls'[1].arg \in {"timeout", "raised"}
          /\ calls'[2] = Call("add", "triage-failed")
          /\ tracker' \in
               {tracker, WithLabel(tracker, issues[i].number, "triage-failed")}
          /\ counted' = Append(counted, [issue |-> i, class |-> "failed"])]_vars
  /\ [][(pc \in InRun) => i' >= i]_vars

\* C8: an invocation has timed out and the issue has failed
C8_Witness ==
  /\ pc = "loop"
  /\ failed = 1
  /\ calls = <<Call("catfight", "timeout"), Call("add", "triage-failed")>>
  /\ "triage-failed" \in tracker[issues[i - 1].number]

\* the arguments of the calls of one kind among the calls made for an issue
ArgsOf(cs, op) ==
  LET IsOp(c) == c.op = op
      sel == SelectSeq(cs, IsOp)
  IN [k \in 1..Len(sel) |-> sel[k].arg]

\* C23: when an issue is counted as processed, the calls made for it hold one
\* comment post, the label writes are the labels analyze_results derives from
\* a transcript followed by the host tag, triage-failed is not among them,
\* and needs-retriage is removed exactly when the backlog had it on the issue;
\* nothing else is removed.
C23_ProcessedWrites ==
  [][(/\ Len(counted') = Len(counted) + 1
      /\ counted'[Len(counted')].class = "processed") =>
       /\ ArgsOf(calls', "comment") = <<"">>
       /\ \E results \in DriverTranscripts :
            ArgsOf(calls', "add") = Append(analyze_results(results), hostname_tag)
       /\ \A k \in 1..Len(calls') : calls'[k] # Call("add", "triage-failed")
       /\ ArgsOf(calls', "remove") =
            IF "needs-retriage" \in issues[i].labels
            THEN <<"needs-retriage">> ELSE <<>>]_vars

\* C23: an issue that had needs-retriage in the backlog has been processed
\* and the removal was the last call made for it
C23_Witness ==
  /\ pc = "loop"
  /\ i > 1
  /\ counted[i - 1].class = "processed"
  /\ "needs-retriage" \in issues[i - 1].labels
  /\ calls[Len(calls)] = Call("remove", "needs-retriage")
  /\ ArgsOf(calls, "comment") = <<"">>

\* C26: at every point of a run, among the calls made for the issue at hand
\* the comment post comes before every write of a derived label, the write
\* of the host tag comes after the writes of all the derived labels, in the
\* order analyze_results gave them, and the removal of needs-retriage comes
\* after the write of the host tag.
C26_WriteOrder ==
  \A k \in 1..Len(calls) :
    /\ (calls[k].op = "add" /\ calls[k].arg # "triage-failed") =>
         \E c \in 1..(k - 1) : calls[c].op = "comment"
    /\ calls[k] = Call("add", hostname_tag) =>
         /\ ArgsOf(SubSeq(calls, 1, k), "add") = result_labels
         /\ \E results \in DriverTranscripts :
              ArgsOf(SubSeq(calls, 1, k - 1), "add") = analyze_results(results)
    /\ calls[k].op = "remove" =>
         \E h \in 1..(k - 1) : calls[h] = Call("add", hostname_tag)

\* C26: the host tag has just been written after a scope label and a quality
\* label, the removal is still to come
C26_Witness ==
  /\ pc = "labels"
  /\ todo = <<>>
  /\ Len(result_labels) = 3
  /\ calls[Len(calls)] = Call("add", hostname_tag)
  /\ "needs-retriage" \in issues[i].labels

\* C28: no step takes a label other than needs-retriage off an issue; an
\* issue that had triage-failed in the backlog and is counted as processed
\* still carries it, together with the host tag when every write of the run
\* for it took effect.
C28_OnlyRetriageRemoved ==
  /\ [][\A n \in DOMAIN tracker :
          tracker[n] \ tracker'[n] \subseteq {"needs-retriage"}]_vars
  /\ [](pc \in InRun \cup {"report"} =>
          \A k \in 1..Len(counted) :
            (/\ counted[k].class = "processed"
             /\ "triage-failed" \in issues[k].labels) =>
              /\ "triage-failed" \in tracker[issues[k].number]
              /\ triaged_by[issues[k].number] = hostname_tag =>
                   hostname_tag \in tracker[issues[k].number])

\* C28: the report of a run that processed an issue carrying triage-failed
\* and needs-retriage: triage-failed and the host tag are on it,
\* needs-retriage is not
C28_Witness ==
  /\ pc = "report"
  /\ counted[1].class = "processed"
  /\ {"triage-failed", "needs-retriage"} \subseteq issues[1].labels
  /\ {"triage-failed", hostname_tag} \subseteq tracker[issues[1].number]
  /\ "needs-retriage" \notin tracker[issues[1].number]

\* C25: an invocation that returns, with whatever exit status, is followed
\* by the read of the transcript and not by the failure path; an issue whose
\* transcript gave no scope label and the label actionable (the transcript
\* without contestants) is counted as processed once its comment and labels
\* are out, with a comment post and the write of the host tag among its calls
\* and no write of triage-failed; and a later run with that host tag skips an
\* issue that a run processed with every write taking effect.
C25_ReturnIsSuccess ==
  /\ [][(/\ pc = "catfight"
          /\ Len(calls') > Len(calls)
          /\ calls'[Len(calls) + 1].op = "catfight"
          /\ calls'[Len(calls) + 1].arg \in Returned) =>
           /\ pc' = "read"
           /\ failed' = failed
           /\ tracker' = tracker]_vars
  /\ [][(/\ pc = "labels" /\ todo = <<>>
          /\ result_labels = <<"actionable", hostname_tag>>) =>
           /\ processed' = processed + 1
           /\ failed' = failed
           /\ counted'[Len(counted')] = [issue |-> i, class |-> "processed"]
           /\ calls[1].op = "catfight" /\ calls[1].arg \in Returned
           /\ ArgsOf(calls', "comment") = <<"">>
           /\ ArgsOf(calls', "add") = <<"actionable", hostname_tag>>]_vars
  /\ [](pc = "loop" =>
          \A k \in i..Len(issues) :
            triaged_by[issues[k].number] = hostname_tag =>
              ~should_process(issues[k], hostname_tag).should)

\* C25: an invocation that ended with exit status 1 and left a transcript
\* without contestants: the issue is counted as processed and carries the
\* host tag and actionable, not triage-failed
C25_Witness ==
  /\ pc = "loop"
  /\ i > 1
  /\ counted[i - 1].class = "processed"
  /\ calls[1] = Call("catfight", "exit 1")
  /\ result_labels = <<"actionable", hostname_tag>>
  /\ tracker[issues[i - 1].number] = {"actionable", hostname_tag}

\* C21: a run that ends early because the prompt of an issue cannot be
\* written has printed the processed / skipped / failed counts it had
\* accumulated.
C21_CountsPrinted ==
  pc = "crashed" =>
    /\ report # <<>>
    /\ report[1].processed = processed
    /\ report[1].skipped = skipped
    /\ report[1].failed = failed

\* C22: every external call of main ends within its timeout, so a run that
\* has started reaches the final report (or ends on a prompt that cannot be
\* written) even when an external process never returns.
C22_AlwaysReports ==
  (pc \in InRun \cup {"blocked"}) ~> (pc \in {"report", "crashed"})

(***************************************************************************)
(* The claims on the logger, the sweep and the benchmarks, under SpecLog.   *)
(***************************************************************************)

\* one sequence is the start of another
IsPrefix(short, long) ==
  /\ Len(short) <= Len(long)
  /\ SubSeq(long, 1, Len(short)) = short

\* C14: while a TriageLogger object lives, the log of its run holds the
\* records it held when the object was made followed by one record per
\* logging call, in call order; a call adds its record at the end and leaves
\* the earlier ones as they were, and nothing shortens the log.
C14_AppendOnly ==
  /\ [](logger # <<>> =>
          FileRecords(jsonl, logger[1].run_id) = at_open \o sent)
  /\ [][(logger # <<>> /\ logger' # <<>>) =>
          LET old == FileRecords(jsonl, logger[1].run_id)
              new == FileRecords(jsonl', logger[1].run_id)
          IN /\ IsPrefix(old, new)
             /\ sent' # sent =>
                  /\ sent' = Append(sent, new[Len(new)])
                  /\ Len(new) = Len(old) + 1
             /\ sent' = sent => new = old]_vars

\* C14: an object that found a record in its log has made two logging calls
C14_Witness ==
  /\ logger # <<>>
  /\ at_open # <<>>
  /\ Len(sent) = 2
  /\ Len(jsonl[logger[1].run_id]) = Len(at_open) + 2

\* C15: the summary of a run is written by finalize only, and once it is
\* stored no later step rewrites it with another content or removes it.
C15_SingleWrite ==
  [][/\ summaries' # summaries => (logger # <<>> /\ fresh')
     /\ \A r \in DOMAIN summaries :
          /\ r \in DOMAIN summaries'
          /\ summaries'[r] = summaries[r]]_vars

\* the attempt records of a model in a log, by status done / not done
Attempts(records, model, done) ==
  {k \in 1..Len(records) :
     /\ "model" \in DOMAIN records[k]
     /\ records[k].model = model
     /\ (records[k].status = "done") = done}

\* the models with an attempt record in a log
Attempted(records) ==
  {records[k].model : k \in {j \in 1..Len(records) : "model" \in DOMAIN records[j]}}

RECURSIVE TimeSum(_, _)
\* the sum of the times of some records of a log
TimeSum(records, ks) ==
  IF ks = {} THEN 0
  ELSE LET k == CHOOSE x \in ks : TRUE
       IN records[k].time + TimeSum(records, ks \ {k})

\* C16: right after finalize, the summary's issues_processed, and per model
\* its runs, failures and total_time, are what the records of the run's log
\* give: the issue_complete records, the attempt records that are done, those
\* that are not, and the sum of the times of the done ones (rounded as the
\* summary rounds).
C16_Rederivable ==
  (logger # <<>> /\ fresh) =>
    LET records == FileRecords(jsonl, logger[1].run_id)
        summary == summaries[logger[1].run_id]
    IN /\ summary.issues_processed =
            Cardinality({k \in 1..Len(records) : "event" \in DOMAIN records[k]})
       /\ DOMAIN summary.model_stats = Attempted(records)
       /\ \A m \in DOMAIN summary.model_stats :
            /\ summary.model_stats[m].runs =
                 Cardinality(Attempts(records, m, TRUE))
            /\ summary.model_stats[m].failures =
                 Cardinality(Attempts(records, m, FALSE))
            /\ summary.model_stats[m].total_time =
                 Round1(TimeSum(records, Attempts(records, m, TRUE)))

\* C17: a sweep that starts right after another sweep has returned, on the
\* same date and with no writer in between, deletes no directory, compresses
\* no log and leaves the date and every file as the first sweep left them.
C17_Idempotent ==
  (sw_pc = "done" /\ again) =>
    /\ cleaned = NoCounts
    /\ Tree = before

\* C17: the second of two sweeps has returned, the first having deleted a
\* directory and compressed a log
C17_Witness ==
  /\ sw_pc = "done"
  /\ again
  /\ raw # RawEntries
  /\ gz # <<>>
  /\ jsonl # <<>>

\* the raw directories whose name starts with a date more than
\* RAW_RETENTION_DAYS days old
OldDirs(entries, day) ==
  {item \in entries :
     /\ item.is_dir
     /\ \E d \in 1..31 : DayStamp(d) = item.head /\ day - d > RAW_RETENTION_DAYS}

\* the logs whose run id starts with a date more than COMPRESS_AFTER_DAYS days
\* old
OldLogs(files, day) ==
  {r \in DOMAIN files :
     \E d \in 1..31 : DayStamp(d) = r[1] /\ day - d > COMPRESS_AFTER_DAYS}

\* C18: when a sweep returns, the raw directories gone are exactly those with
\* a date older than 7 days, the logs compressed are exactly the uncompressed
\* ones with a date older than 1 day, each compressed copy holds what its
\* original held and the original is gone; every other raw entry and log,
\* every log that was compressed already and every summary is as it was when
\* the sweep started, and the counts returned are those of the two sets.
C18_SweepEffect ==
  sw_pc = "done" =>
    /\ raw = before.raw \ OldDirs(before.raw, before.today)
    /\ cleaned.deleted = Cardinality(OldDirs(before.raw, before.today))
    /\ DOMAIN jsonl = DOMAIN before.jsonl \ OldLogs(before.jsonl, before.today)
    /\ cleaned.compressed = Cardinality(OldLogs(before.jsonl, before.today))
    /\ \A r \in DOMAIN jsonl : jsonl[r] = before.jsonl[r]
    /\ DOMAIN gz = DOMAIN before.gz \cup OldLogs(before.jsonl, before.today)
    /\ \A r \in OldLogs(before.jsonl, before.today) \ DOMAIN before.gz :
         gz[r] = before.jsonl[r]
    /\ \A r \in DOMAIN before.gz : gz[r] = before.gz[r]
    /\ summaries = before.summaries

RECURSIVE SumOver(_, _, _, _)
\* the sum of one field of a model's statistics over the summaries of some
\* run ids, a summary without the model giving nothing
SumOver(files, ids, model, field) ==
  IF ids = {} THEN 0
  ELSE LET r == CHOOSE x \in ids : TRUE
       IN (IF model \in DOMAIN files[r].model_stats
           THEN files[r].model_stats[model][field] ELSE 0)
          + SumOver(files, ids \ {r}, model, field)

\* C19: what get_model_benchmarks returns for the chosen run ids holds every
\* model of a chosen summary (run ids without a summary give nothing) with
\* runs and failures summed over those summaries, and with an average time,
\* an average token count and the failure rate failures / (runs + failures),
\* in percent with one decimal, also when no attempt of the model succeeded;
\* the summaries taken in any other order give the same result.
C19_Benchmarks ==
  bench_pc = "returned" =>
    LET chosen == bench_sel \cap DOMAIN summaries
    IN /\ DOMAIN bench = UNION {DOMAIN summaries[r].model_stats : r \in chosen}
       /\ \A m \in DOMAIN bench :
            LET runs == SumOver(summaries, chosen, m, "runs")
                failures == SumOver(summaries, chosen, m, "failures")
                total_time == SumOver(summaries, chosen, m, "total_time")
            IN /\ bench[m].runs = runs
               /\ bench[m].failures = failures
               /\ bench[m].rates # <<>>
               /\ 2 * (runs + failures) * bench[m].rates[1].failure_rate
                    \in (2000 * failures - (runs + failures) + 1)
                        ..(2000 * failures + (runs + failures))
               /\ runs > 0 =>
                    20 * runs * bench[m].rates[1].avg_time
                      \in (20 * total_time - 100 * runs)..(20 * total_time + 100 * runs)
       /\ \A paths \in Orders(bench_sel) :
            get_model_benchmarks(summaries, paths) = bench

\* the records of run r that can be read back: those of the uncompressed
\* original and those of a compressed copy that has been closed
HeldIn(originals, copies, open, r) ==
  (IF r \in DOMAIN originals THEN Range(originals[r]) ELSE {})
  \cup (IF r \in DOMAIN copies \ open THEN Range(copies[r]) ELSE {})

\* C30: no step of a sweep, and no kill of its process, takes away a record
\* of a log that could be read from the original or from a closed compressed
\* copy before the step; an original is unlinked only when the closed copy
\* holds what it held; and when a sweep has returned, after a kill or not,
\* no compressed copy is left half written.
C30_CrashSafe ==
  /\ [][(sw_pc \notin {"idle", "done"}) =>
          \A r \in DOMAIN jsonl \cup DOMAIN gz :
            /\ HeldIn(jsonl, gz, gz_open, r) \subseteq HeldIn(jsonl', gz', gz_open', r)
            /\ (r \in DOMAIN jsonl /\ r \notin DOMAIN jsonl') =>
                 /\ r \in DOMAIN gz' \ gz_open'
                 /\ gz'[r] = jsonl[r]]_vars
  /\ [](sw_pc = "done" => gz_open = {})

====
